---- MODULE Spec2Model ----
(***************************************************************************)
(* A model of jj/native_compiler.py (class NativeCompiler): the ARM64      *)
(* code generator, its string pool, its label/branch resolver and the      *)
(* Mach-O container builder of JibJab.                                     *)
(*                                                                         *)
(* Representation.  A 32-bit instruction word is the pair <<hi, lo>> of    *)
(* its two 16-bit halves (the integers of the checker are 32-bit signed,   *)
(* a word is not).  The code buffer is the sequence of its words (the      *)
(* source only ever appends and overwrites whole little-endian words), so  *)
(* len(self.code) is 4 * Len(code).  The data buffer is the sequence of    *)
(* its bytes.  Python dicts are functions on their key sets, Python        *)
(* strings are strings, and a generator instance is the record Self of     *)
(* its fields, on which every method is an operator.                       *)
(***************************************************************************)
EXTENDS Integers, Sequences, FiniteSets, TLC

VARIABLES
    code,              \* self.code, as words
    data,              \* self.data, as bytes
    variables,         \* self.variables: name -> frame offset
    functions,         \* self.functions: name -> code_offset
    label_offsets,     \* self.label_offsets: label -> code byte offset
    pending_branches,  \* self.pending_branches: <<[offset, label, type]>>
    string_offsets,    \* self.string_offsets: string -> data offset
    stack_offset,      \* self.stack_offset
    current_func,      \* self.current_func ("None" outside a function)
    print_int_offset,  \* self.print_int_offset
    print_float_offset,\* self.print_float_offset
    enums,             \* self.enums: name -> cases
    enum_var_types,    \* self.enum_var_types (its key set)
    arrays,            \* self.arrays: name -> [offset, count, elem_type]
    tuples,            \* self.tuples: name -> [offset, types]
    dicts,             \* self.dicts: name -> entries
    float_vars,        \* self.float_vars
    ret,               \* the value the last method call returned
    op,                \* the last method called, with its arguments
    pc,                \* where the running call sequence stands
    main_offset,       \* compile's local main_offset
    layout,            \* _write_macho's locals (offsets, sizes, addresses)
    binary,            \* _write_macho's output, as a sequence of chunks
    cpu                \* the machine that executes the generated code

gen_vars == <<code, data, variables, functions, label_offsets,
              pending_branches, string_offsets, stack_offset, current_func,
              print_int_offset, print_float_offset, enums, enum_var_types,
              arrays, tuples, dicts, float_vars, ret>>

vars == <<code, data, variables, functions, label_offsets,
          pending_branches, string_offsets, stack_offset, current_func,
          print_int_offset, print_float_offset, enums, enum_var_types,
          arrays, tuples, dicts, float_vars, ret,
          op, pc, main_offset, layout, binary, cpu>>

(***************************************************************************)
(* Python values                                                           *)
(***************************************************************************)
None == "None"

EmptyDict == [k \in {} |-> 0]

\* d[k] = v
Put(d, k, v) == [x \in (DOMAIN d) \cup {k} |-> IF x = k THEN v ELSE d[x]]

\* str(n) for an integer n
Str(n) == ToString(n)

(***************************************************************************)
(* 32-bit words                                                            *)
(***************************************************************************)
RECURSIVE BitOr(_, _)
BitOr(a, b) ==
    IF a = 0 THEN b
    ELSE IF b = 0 THEN a
    ELSE 2 * BitOr(a \div 2, b \div 2)
         + (IF a % 2 = 1 \/ b % 2 = 1 THEN 1 ELSE 0)

RECURSIVE BitAnd(_, _)
BitAnd(a, b) ==
    IF a = 0 \/ b = 0 THEN 0
    ELSE 2 * BitAnd(a \div 2, b \div 2)
         + (IF a % 2 = 1 /\ b % 2 = 1 THEN 1 ELSE 0)

\* the word 0xHHHHLLLL
Hex(hi, lo) == <<hi, lo>>

\* n & 0xFFFFFFFF for a Python integer n (two's complement when n < 0)
ToWord(n) == <<(n \div 65536) % 65536, n % 65536>>

Or32(u, v) == <<BitOr(u[1], v[1]), BitOr(u[2], v[2])>>

And32(u, v) == <<BitAnd(u[1], v[1]), BitAnd(u[2], v[2])>>

\* (u << sh) & 0xFFFFFFFF
Shl32(u, sh) ==
    IF sh >= 16
    THEN <<(u[2] * 2^(sh - 16)) % 65536, 0>>
    ELSE <<((u[1] % 2^(16 - sh)) * 2^sh + (u[2] * 2^sh) \div 65536) % 65536,
           (u[2] * 2^sh) % 65536>>

\* (w >> p) & (2^n - 1), as an integer (n <= 26)
Bits(w, p, n) ==
    IF p >= 16 THEN (w[1] \div 2^(p - 16)) % 2^n
    ELSE IF p + n <= 16 THEN (w[2] \div 2^p) % 2^n
    ELSE (w[2] \div 2^p) + (w[1] % 2^(p + n - 16)) * 2^(16 - p)

\* the two's complement value of an n-bit field
SignExtend(x, n) == IF x >= 2^(n - 1) THEN x - 2^n ELSE x

\* the signed 32-bit value of a word
Signed32(w) ==
    IF w[1] >= 32768 THEN (w[1] - 65536) * 65536 + w[2]
    ELSE w[1] * 65536 + w[2]

(***************************************************************************)
(* arm64.json: the instruction words and branch condition codes the        *)
(* generator reads from its configuration (ARM64 encodings)                *)
(***************************************************************************)
\* self.inst = self.config['instructions']
inst ==
    [adrp |-> Hex(\h9000, \h0000),
     add_imm_base |-> Hex(\h9100, \h0000),
     prologue |->
         [stp_fp_lr |-> Hex(\hA9BF, \h7BFD),
          stp_x19_x20 |-> Hex(\hA9BF, \h53F3),
          mov_fp_sp |-> Hex(\h9100, \h03FD),
          sub_sp_48 |-> Hex(\hD100, \hC3FF)],
     epilogue |->
         [add_sp_48 |-> Hex(\h9100, \hC3FF),
          ldp_fp_lr |-> Hex(\hA8C1, \h7BFD),
          ldp_x19_x20 |-> Hex(\hA8C1, \h53F3),
          ret |-> Hex(\hD65F, \h03C0)],
     moves |->
         [mov_w0_0 |-> Hex(\h5280, \h0000),
          mov_x0_1 |-> Hex(\hD280, \h0020),
          neg_w8_w0 |-> Hex(\h4B00, \h03E8),
          mov_x2_1 |-> Hex(\hD280, \h0022),
          mov_x1_x10 |-> Hex(\hAA0A, \h03E1),
          mov_x1_sp |-> Hex(\h9100, \h03E1),
          mov_w9_w0 |-> Hex(\h2A00, \h03E9),
          mov_w9_minus |-> Hex(\h5280, \h05A9),
          mov_w9_1 |-> Hex(\h5280, \h0029),
          mov_w9_0 |-> Hex(\h5280, \h0009),
          mov_w8_w0 |-> Hex(\h2A00, \h03E8),
          mov_w1_w0 |-> Hex(\h2A00, \h03E1),
          mov_w13_newline |-> Hex(\h5280, \h014D),
          mov_w11_10 |-> Hex(\h5280, \h014B)],
     memory |->
         [add_x14_sp_32 |-> Hex(\h9100, \h83EE),
          sub_x2_x14_x10 |-> Hex(\hCB0A, \h01C2),
          strb_w9_sp |-> Hex(\h3900, \h03E9),
          strb_w13_sp |-> Hex(\h3900, \h03ED),
          strb_w13_predec |-> Hex(\h381F, \hFD4D),
          strb_w12_predec |-> Hex(\h381F, \hFD4C),
          str_x0_push |-> Hex(\hF81F, \h0FE0),
          ldrb_w13_sp |-> Hex(\h3940, \h03ED),
          ldr_x0_pop |-> Hex(\hF841, \h07E0),
          add_x10_sp_32 |-> Hex(\h9100, \h83EA)],
     compare |->
         [cmp_w0_w1 |-> Hex(\h6B01, \h001F),
          cmp_w0_0 |-> Hex(\h7100, \h001F),
          cmp_w9_w0 |-> Hex(\h6B00, \h013F),
          cmp_w9_0 |-> Hex(\h7100, \h013F),
          cmp_w8_0 |-> Hex(\h7100, \h011F)],
     cset |->
         [eq |-> Hex(\h1A9F, \h17E0),
          ne |-> Hex(\h1A9F, \h07E0),
          lt |-> Hex(\h1A9F, \hA7E0),
          gt |-> Hex(\h1A9F, \hD7E0)],
     arithmetic |->
         [udiv_w8_w8_w11 |-> Hex(\h1ACB, \h0908),
          udiv_w12_w8_w11 |-> Hex(\h1ACB, \h090C),
          sub |-> Hex(\h4B01, \h0000),
          sdiv |-> Hex(\h1AC1, \h0C00),
          mul |-> Hex(\h1B01, \h7C00),
          msub_w12 |-> Hex(\h1B0B, \hA18C),
          add_w12_48 |-> Hex(\h1100, \hC18C),
          add_w0_1 |-> Hex(\h1100, \h0400),
          add |-> Hex(\h0B01, \h0000)],
     syscall |->
         [svc |-> Hex(\hD400, \h1001),
          movk_x16_0x200_lsl16 |-> Hex(\hF2A0, \h4010),
          movz_x16_4 |-> Hex(\hD280, \h0090),
          movz_x16_1 |-> Hex(\hD280, \h0030)],
     branchCond |-> [eq |-> 0, ne |-> 1, ge |-> 10, le |-> 13]]

\* self.print_int_cfg = self.config['printInt']: the three branches inside the
\* integer print routine
print_int_cfg ==
    [bge_skip_neg_offset |-> Hex(\h5400, \h00CA),
     b_continue_offset |-> Hex(\h1400, \h0003),
     beq_skip_copy_offset |-> Hex(\h5400, \h0060)]

(***************************************************************************)
(* The generator instance                                                  *)
(***************************************************************************)
Self ==
    [code |-> code, data |-> data, variables |-> variables,
     functions |-> functions, label_offsets |-> label_offsets,
     pending_branches |-> pending_branches,
     string_offsets |-> string_offsets, stack_offset |-> stack_offset,
     current_func |-> current_func, print_int_offset |-> print_int_offset,
     print_float_offset |-> print_float_offset, enums |-> enums,
     enum_var_types |-> enum_var_types, arrays |-> arrays,
     tuples |-> tuples, dicts |-> dicts, float_vars |-> float_vars,
     ret |-> ret]

\* NativeCompiler.__init__
NewCompiler ==
    [code |-> << >>, data |-> << >>, variables |-> EmptyDict,
     functions |-> EmptyDict, label_offsets |-> EmptyDict,
     pending_branches |-> << >>, string_offsets |-> EmptyDict,
     stack_offset |-> 0, current_func |-> None, print_int_offset |-> 0,
     print_float_offset |-> 0, enums |-> EmptyDict, enum_var_types |-> {},
     arrays |-> EmptyDict, tuples |-> EmptyDict, dicts |-> EmptyDict,
     float_vars |-> {}, ret |-> None]

\* the next state's generator instance is s
Install(s) ==
    /\ code' = s.code
    /\ data' = s.data
    /\ variables' = s.variables
    /\ functions' = s.functions
    /\ label_offsets' = s.label_offsets
    /\ pending_branches' = s.pending_branches
    /\ string_offsets' = s.string_offsets
    /\ stack_offset' = s.stack_offset
    /\ current_func' = s.current_func
    /\ print_int_offset' = s.print_int_offset
    /\ print_float_offset' = s.print_float_offset
    /\ enums' = s.enums
    /\ enum_var_types' = s.enum_var_types
    /\ arrays' = s.arrays
    /\ tuples' = s.tuples
    /\ dicts' = s.dicts
    /\ float_vars' = s.float_vars
    /\ ret' = s.ret

\* len(self.code)
CodeLen(s) == 4 * Len(s.code)

\* struct.unpack('<I', self.code[off:off+4])[0]
WordAt(c, off) == c[(off \div 4) + 1]

(***************************************************************************)
(* Local names.  A Python local  x = e  followed by the rest of the method *)
(* is written  Bind(e, LAMBDA x : rest): x stands for the value of e in    *)
(* rest, as the local does, however often rest reads it.                   *)
(***************************************************************************)
Bind(v, F(_)) == F(v)

(***************************************************************************)
(* Emitters                                                                *)
(***************************************************************************)
emit(s, word) == [s EXCEPT !.code = Append(@, word)]

\* F applied to s once s has been evaluated: a run of emissions is evaluated
\* in program order, one after the other, not as one nested expression
Then(s, F(_)) == IF s.stack_offset >= 0 THEN F(s) ELSE s

\* consecutive _emit calls
emit_all(s, insts) == [s EXCEPT !.code = @ \o insts]

\* mov_imm_words with the move-not immediate left uninverted
mov_imm_words_movn_raw(reg, value) ==
    LET v == ToWord(value)
    IN  IF 0 <= value /\ value < 65536
        THEN << Or32(Or32(Hex(\h5280, 0), Shl32(v, 5)), ToWord(reg)) >>
        ELSE IF -65536 <= value /\ value < 0
        THEN << Or32(Or32(Hex(\h1280, 0), Shl32(ToWord(v[2]), 5)),
                     ToWord(reg)) >>
        ELSE << Or32(Or32(Hex(\h5280, 0), Shl32(ToWord(v[2]), 5)),
                     ToWord(reg)),
                Or32(Or32(Hex(\h72A0, 0), Shl32(ToWord(v[1]), 5)),
                     ToWord(reg)) >>

mov_imm_words(reg, value) ==
    LET v == ToWord(value)
    IN  IF 0 <= value /\ value < 65536
        THEN << Or32(Or32(Hex(\h5280, 0), Shl32(v, 5)), ToWord(reg)) >>
        ELSE IF -65536 <= value /\ value < 0
        THEN << Or32(Or32(Hex(\h1280, 0),
                          Shl32(ToWord(65535 - v[2]), 5)), ToWord(reg)) >>
        ELSE << Or32(Or32(Hex(\h5280, 0), Shl32(ToWord(v[2]), 5)),
                     ToWord(reg)),
                Or32(Or32(Hex(\h72A0, 0), Shl32(ToWord(v[1]), 5)),
                     ToWord(reg)) >>

emit_mov_imm(s, reg, value) == emit_all(s, mov_imm_words(reg, value))

\* a variant without the 16 bytes between the frame base and the first slot
off9_unbiased(offset) == (-offset) % 512

\* off9 = (-offset - 16) & 0x1FF
off9(offset) == (-offset - 16) % 512

frame_word(base, reg, offset) ==
    Or32(Or32(Or32(base, Shl32(ToWord(off9(offset)), 12)),
              Shl32(ToWord(29), 5)), ToWord(reg))

emit_store(s, reg, offset) == emit(s, frame_word(Hex(\hB800, 0), reg, offset))

emit_load(s, reg, offset) == emit(s, frame_word(Hex(\hB840, 0), reg, offset))

emit_store_x(s, reg, offset) == emit(s, frame_word(Hex(\hF800, 0), reg, offset))

emit_load_x(s, reg, offset) == emit(s, frame_word(Hex(\hF840, 0), reg, offset))

emit_store_d(s, reg, offset) == emit(s, frame_word(Hex(\hFC00, 0), reg, offset))

emit_load_d(s, reg, offset) == emit(s, frame_word(Hex(\hFC40, 0), reg, offset))

emit_adrp_add(s, reg, data_offset) ==
    emit_all(s,
        << Or32(inst.adrp, ToWord(reg)),
           Or32(Or32(Or32(inst.add_imm_base, Shl32(ToWord(reg), 5)),
                     ToWord(reg)),
                Shl32(ToWord(data_offset % 4096), 10)) >>)

(***************************************************************************)
(* Labels and branches                                                     *)
(***************************************************************************)
BranchType == {"b", "bl", "beq", "bne", "bge", "ble", "bgt", "blt"}

\* self.label_offsets[label] = len(self.code)
define_label(s, label) ==
    [s EXCEPT !.label_offsets = Put(@, label, CodeLen(s))]

add_branch(s, label, branch_type) ==
    emit([s EXCEPT !.pending_branches =
               Append(@, [offset |-> CodeLen(s), label |-> label,
                          type |-> branch_type])],
         Hex(\h1400, 0))

\* cond_word with the immediate placed one bit too low
cond_word_shift4(d, cond) ==
    Or32(Or32(Hex(\h5400, 0), Shl32(And32(d, Hex(\h0007, \hFFFF)), 4)),
         ToWord(cond))

cond_word(d, cond) ==
    Or32(Or32(Hex(\h5400, 0), Shl32(And32(d, Hex(\h0007, \hFFFF)), 5)),
         ToWord(cond))

\* the instruction word _resolve_branches writes for one pending branch
branch_word(type, delta) ==
    LET d == ToWord(delta)
    IN  CASE type = "b"   -> Or32(Hex(\h1400, 0), And32(d, Hex(\h03FF, \hFFFF)))
          [] type = "bl"  -> Or32(Hex(\h9400, 0), And32(d, Hex(\h03FF, \hFFFF)))
          [] type = "beq" -> cond_word(d, inst.branchCond.eq)
          [] type = "bne" -> cond_word(d, inst.branchCond.ne)
          [] type = "bge" -> cond_word(d, inst.branchCond.ge)
          [] type = "ble" -> cond_word(d, inst.branchCond.le)
          [] type = "bgt" -> cond_word(d, 12)
          [] type = "blt" -> cond_word(d, 11)

\* a variant that resolves a branch to an absent label as if the label were
\* at offset 0
RECURSIVE resolve_from_absent_zero(_, _)
resolve_from_absent_zero(s, i) ==
    IF i > Len(s.pending_branches) THEN s
    ELSE LET b == s.pending_branches[i]
             target == IF b.label \in DOMAIN s.label_offsets
                       THEN s.label_offsets[b.label] ELSE 0
             delta == (target - b.offset) \div 4
         IN  resolve_from_absent_zero(
                 [s EXCEPT !.code[(b.offset \div 4) + 1] =
                               branch_word(b.type, delta)],
                 i + 1)

RECURSIVE resolve_from(_, _)
resolve_from(s, i) ==
    IF i > Len(s.pending_branches) THEN s
    ELSE LET b == s.pending_branches[i]
         IN  IF b.label \notin DOMAIN s.label_offsets
             THEN resolve_from(s, i + 1)
             ELSE LET target == s.label_offsets[b.label]
                      delta == (target - b.offset) \div 4
                  IN  resolve_from(
                          [s EXCEPT !.code[(b.offset \div 4) + 1] =
                                        branch_word(b.type, delta)],
                          i + 1)

resolve_branches(s) == resolve_from(s, 1)

\* _patch_cond_branch, and the inline patches of the same shape
patch_cond_branch(s, offset, target, cond) ==
    [s EXCEPT !.code[(offset \div 4) + 1] =
                  cond_word(ToWord((target - offset) \div 4), cond)]

patch_branch(s, offset, target) ==
    [s EXCEPT !.code[(offset \div 4) + 1] =
                  Or32(Hex(\h1400, 0),
                       And32(ToWord((target - offset) \div 4),
                             Hex(\h03FF, \hFFFF)))]

(***************************************************************************)
(* The data buffer                                                         *)
(***************************************************************************)
\* the characters 0x20..0x5F and 0x61..0x7E, in order
AsciiLow == " !\"#$%&'()*+,-./0123456789:;<=>?@ABCDEFGHIJKLMNOPQRSTUVWXYZ[\\]^_"

AsciiHigh == "abcdefghijklmnopqrstuvwxyz{|}~"

IndexIn(c, str) == CHOOSE i \in 1..Len(str) : SubSeq(str, i, i) = c

\* ord(c) of a one-character string
Ord(c) ==
    IF c = "\n" THEN 10
    ELSE IF c = "é" THEN 233
    ELSE IF \E i \in 1..Len(AsciiLow) : SubSeq(AsciiLow, i, i) = c
    THEN 31 + IndexIn(c, AsciiLow)
    ELSE 96 + IndexIn(c, AsciiHigh)

\* the UTF-8 bytes of one code point (below 0x800)
Utf8Char(cp) ==
    IF cp < 128 THEN <<cp>>
    ELSE <<192 + (cp \div 64), 128 + (cp % 64)>>

\* str.encode('utf-8')
RECURSIVE encode_utf8(_)
encode_utf8(str) ==
    IF Len(str) = 0 THEN << >>
    ELSE IF Len(str) = 1 THEN Utf8Char(Ord(str))
    ELSE LET mid == Len(str) \div 2
         IN  encode_utf8(SubSeq(str, 1, mid))
               \o encode_utf8(SubSeq(str, mid + 1, Len(str)))

\* while len(self.data) % n != 0: self.data.append(0)
PadTo(bytes, n) ==
    bytes \o [i \in 1..((n - (Len(bytes) % n)) % n) |-> 0]

\* add_string without the lookup: every call appends
add_string_append(s, str) ==
    LET off == Len(s.data)
    IN  [s EXCEPT !.string_offsets = Put(@, str, off),
                  !.data = PadTo((@ \o encode_utf8(str)) \o <<0>>, 8),
                  !.ret = off]

add_string(s, str) ==
    IF str \in DOMAIN s.string_offsets
    THEN [s EXCEPT !.ret = s.string_offsets[str]]
    ELSE LET off == Len(s.data)
         IN  [s EXCEPT !.string_offsets = Put(@, str, off),
                       !.data = PadTo((@ \o encode_utf8(str)) \o <<0>>, 8),
                       !.ret = off]

\* struct.pack('<d', value) for the doubles of the model
pack_double(value) ==
    CASE value = "10.0" -> <<0, 0, 0, 0, 0, 0, 36, 64>>
      [] value = "2.5"  -> <<0, 0, 0, 0, 0, 0, 4, 64>>
      [] value = "0.5"  -> <<0, 0, 0, 0, 0, 0, 224, 63>>

add_double(s, value) ==
    Bind(PadTo(s.data, 8), LAMBDA padded :
    [s EXCEPT !.data = padded \o pack_double(value),
              !.ret = Len(padded)])

(***************************************************************************)
(* The helper routines generated ahead of user code                        *)
(***************************************************************************)
\* _gen_print_int_routine: the routine's words in emission order; the
\* backward branch of the digit loop is patched in place
gen_print_int_routine(s) ==
    Then(emit_all(s,
       << inst.prologue.stp_fp_lr,
          inst.prologue.mov_fp_sp,
          inst.prologue.sub_sp_48,
          inst.compare.cmp_w0_0,
          print_int_cfg.bge_skip_neg_offset,
          inst.moves.neg_w8_w0,
          inst.moves.mov_w9_minus,
          inst.memory.strb_w9_sp,
          inst.moves.mov_w9_1,
          print_int_cfg.b_continue_offset,
          inst.moves.mov_w8_w0,
          inst.moves.mov_w9_0,
          inst.memory.add_x10_sp_32,
          inst.moves.mov_w11_10 >>), LAMBDA s1 :
    LET loop_offset == CodeLen(s1)
    IN
    Then(emit_all(s1,
       << inst.arithmetic.udiv_w12_w8_w11,
          inst.arithmetic.msub_w12,
          inst.arithmetic.add_w12_48,
          inst.memory.strb_w12_predec,
          inst.arithmetic.udiv_w8_w8_w11,
          inst.compare.cmp_w8_0 >>), LAMBDA s2 :
    LET branch_back == CodeLen(s2)
    IN
    Then(emit_all(s2,
       << Hex(\h5400, \h0001) >>), LAMBDA s3 :
    Then(patch_cond_branch(s3, branch_back, loop_offset, 1), LAMBDA s4 :
    Then(emit_all(s4,
       << inst.compare.cmp_w9_0,
          print_int_cfg.beq_skip_copy_offset,
          inst.memory.ldrb_w13_sp,
          inst.memory.strb_w13_predec,
          inst.memory.add_x14_sp_32,
          inst.memory.sub_x2_x14_x10,
          inst.memory.add_x14_sp_32,
          Hex(\h0B02, \h01CF),
          inst.moves.mov_x1_x10,
          inst.moves.mov_x0_1,
          Hex(\h1100, \h0042),
          inst.syscall.movz_x16_4,
          inst.syscall.movk_x16_0x200_lsl16,
          inst.syscall.svc,
          inst.moves.mov_w13_newline,
          inst.memory.strb_w13_sp,
          inst.moves.mov_x1_sp,
          inst.moves.mov_x0_1,
          inst.moves.mov_x2_1,
          inst.syscall.movz_x16_4,
          inst.syscall.movk_x16_0x200_lsl16,
          inst.syscall.svc,
          inst.epilogue.add_sp_48,
          inst.epilogue.ldp_fp_lr,
          inst.epilogue.ret >>), LAMBDA s5 :
    s5)))))

\* _gen_print_float_routine, in consecutive parts: the words in emission order,
\* the placeholders patched where the source patches them, and the 10.0
\* constant added to the data buffer
\* _gen_print_float_routine: the frame, and the sign written for a negative value
print_float_sign(s) ==
    Then(emit_all(s,
       << Hex(\hA9BF, \h7BFD),
          Hex(\h9100, \h03FD),
          Hex(\hD101, \h83FF),
          Hex(\hFD00, \h03E0),
          Hex(\h1E60, \h2008) >>), LAMBDA s1 :
    LET skip_neg_off == CodeLen(s1)
    IN
    Then(emit_all(s1,
       << Hex(\h5400, \h0000),
          Hex(\h5280, \h05A8),
          Hex(\h3901, \h43E8),
          Hex(\hD280, \h0020),
          Hex(\h9101, \h43E1),
          Hex(\hD280, \h0022),
          Hex(\hD280, \h0090),
          Hex(\hF2A0, \h4010),
          Hex(\hD400, \h1001),
          Hex(\hFD40, \h03E0),
          Hex(\h1E61, \h4000),
          Hex(\hFD00, \h03E0) >>), LAMBDA s2 :
    Then(patch_cond_branch(s2, skip_neg_off, CodeLen(s2), 10), LAMBDA s3 :
    s3)))

\* _gen_print_float_routine: a value without a fraction printed as an integer;
\* ret is the offset of its jump to the epilogue
print_float_whole(s3) ==
    Then(emit_all(s3,
       << Hex(\hFD40, \h03E0),
          Hex(\h9E78, \h0008),
          Hex(\h9E62, \h0101),
          Hex(\h1E61, \h3802),
          Hex(\h1E60, \h2048) >>), LAMBDA s4 :
    LET has_dec_off == CodeLen(s4)
    IN
    Then(emit_all(s4,
       << Hex(\h5400, \h0001),
          Hex(\h9100, \hC3EA),
          Hex(\h5280, \h014B) >>), LAMBDA s5 :
    LET whole_loop_off == CodeLen(s5)
    IN
    Then(emit_all(s5,
       << Hex(\h9ACB, \h090C),
          Hex(\h9B0B, \hA18C),
          Hex(\h1100, \hC18C),
          Hex(\h381F, \hFD4C),
          Hex(\h9ACB, \h0908),
          Hex(\hF100, \h011F) >>), LAMBDA s6 :
    LET wh_br_off == CodeLen(s6)
    IN
    Then(emit_all(s6,
       << Hex(\h5400, \h0001) >>), LAMBDA s7 :
    Then(patch_cond_branch(s7, wh_br_off, whole_loop_off, 1), LAMBDA s8 :
    Then(emit_all(s8,
       << Hex(\h9100, \hC3EE),
          Hex(\hCB0A, \h01C2),
          Hex(\hAA0A, \h03E1),
          Hex(\hD280, \h0020),
          Hex(\hD280, \h0090),
          Hex(\hF2A0, \h4010),
          Hex(\hD400, \h1001),
          Hex(\h5280, \h014D),
          Hex(\h3901, \h43ED),
          Hex(\hD280, \h0020),
          Hex(\h9101, \h43E1),
          Hex(\hD280, \h0022),
          Hex(\hD280, \h0090),
          Hex(\hF2A0, \h4010),
          Hex(\hD400, \h1001) >>), LAMBDA s9 :
    LET whole_end_off == CodeLen(s9)
    IN
    Then(emit_all(s9,
      << Hex(\h1400, \h0000) >>), LAMBDA s10 :
    Then(patch_cond_branch(s10, has_dec_off, CodeLen(s10), 1), LAMBDA s11 :
    [s11 EXCEPT !.ret = whole_end_off]))))))))

\* _gen_print_float_routine: the integer digits of a value with a fraction
print_float_int_digits(s11) ==
    Then(emit_all(s11,
      << Hex(\h9100, \hC3EA),
         Hex(\h5280, \h014B),
         Hex(\hF100, \h011F) >>), LAMBDA s12 :
    LET int_zero_off == CodeLen(s12)
    IN
    Then(emit_all(s12,
      << Hex(\h5400, \h0000) >>), LAMBDA s13 :
    LET dec_int_loop_off == CodeLen(s13)
    IN
    Then(emit_all(s13,
      << Hex(\h9ACB, \h090C),
         Hex(\h9B0B, \hA18C),
         Hex(\h1100, \hC18C),
         Hex(\h381F, \hFD4C),
         Hex(\h9ACB, \h0908),
         Hex(\hF100, \h011F) >>), LAMBDA s14 :
    LET di_br_off == CodeLen(s14)
    IN
    Then(emit_all(s14,
      << Hex(\h5400, \h0001) >>), LAMBDA s15 :
    Then(patch_cond_branch(s15, di_br_off, dec_int_loop_off, 1), LAMBDA s16 :
    LET past_zero_off == CodeLen(s16)
    IN
    Then(emit_all(s16,
      << Hex(\h1400, \h0000) >>), LAMBDA s17 :
    Then(patch_cond_branch(s17, int_zero_off, CodeLen(s17), 0), LAMBDA s18 :
    Then(emit_all(s18,
      << Hex(\h5280, \h0608),
         Hex(\h381F, \hFD48) >>), LAMBDA s19 :
    LET past_zero_target == CodeLen(s19)
    IN
    Then(patch_branch(s19, past_zero_off, past_zero_target), LAMBDA s20 :
    s20)))))))))

\* _gen_print_float_routine: the decimal point and the fraction digits
print_float_fraction(s20) ==
    Then(emit_all(s20,
      << Hex(\h9100, \hC3EE),
         Hex(\hCB0A, \h01C2),
         Hex(\hAA0A, \h03E1),
         Hex(\hD280, \h0020),
         Hex(\hD280, \h0090),
         Hex(\hF2A0, \h4010),
         Hex(\hD400, \h1001),
         Hex(\h5280, \h05C8),
         Hex(\h3901, \h43E8),
         Hex(\hD280, \h0020),
         Hex(\h9101, \h43E1),
         Hex(\hD280, \h0022),
         Hex(\hD280, \h0090),
         Hex(\hF2A0, \h4010),
         Hex(\hD400, \h1001),
         Hex(\hFD40, \h03E0),
         Hex(\h9E78, \h0008),
         Hex(\h9E62, \h0101),
         Hex(\h1E61, \h3802),
         Hex(\h5280, \h0009) >>), LAMBDA s21 :
    Then(add_double(s21, "10.0"), LAMBDA s22 :
    LET ten_off == s22.ret
    IN
    Then(emit_adrp_add(s22, 8, ten_off), LAMBDA s23 :
    Then(emit_all(s23,
      << Hex(\hFD40, \h0103) >>), LAMBDA s24 :
    LET frac_loop_off == CodeLen(s24)
    IN
    Then(emit_all(s24,
      << Hex(\h1E63, \h0842),
         Hex(\h9E78, \h004A),
         Hex(\h1100, \hC14A),
         Hex(\h9100, \hC3EB),
         Hex(\h3829, \h496A),
         Hex(\h9E78, \h004A),
         Hex(\h9E62, \h0144),
         Hex(\h1E64, \h3842),
         Hex(\h1100, \h0529),
         Hex(\h7100, \h413F) >>), LAMBDA s25 :
    LET frac_br_off == CodeLen(s25)
    IN
    Then(emit_all(s25,
      << Hex(\h5400, \h000B) >>), LAMBDA s26 :
    Then(patch_cond_branch(s26, frac_br_off, frac_loop_off, 11), LAMBDA s27 :
    Then(emit_all(s27,
      << Hex(\h5100, \h0529) >>), LAMBDA s28 :
    LET trim_loop_off == CodeLen(s28)
    IN
    Then(emit_all(s28,
      << Hex(\h9100, \hC3EB),
         Hex(\h3869, \h496A),
         Hex(\h7100, \hC15F) >>), LAMBDA s29 :
    LET trim_done_off == CodeLen(s29)
    IN
    Then(emit_all(s29,
      << Hex(\h5400, \h0001),
         Hex(\h5100, \h0529),
         Hex(\h7100, \h013F) >>), LAMBDA s30 :
    LET trim_br_off == CodeLen(s30)
    IN
    Then(emit_all(s30,
      << Hex(\h5400, \h000A) >>), LAMBDA s31 :
    Then(patch_cond_branch(s31, trim_br_off, trim_loop_off, 10), LAMBDA s32 :
    Then(patch_cond_branch(s32, trim_done_off, CodeLen(s32), 1), LAMBDA s33 :
    s33)))))))))))))

\* _gen_print_float_routine: the newline and the epilogue the whole-number path
\* jumps to
print_float_epilogue(s33, whole_end_off) ==
    Then(emit_all(s33,
      << Hex(\h1100, \h0522),
         Hex(\h9100, \hC3E1),
         Hex(\hD280, \h0020),
         Hex(\hD280, \h0090),
         Hex(\hF2A0, \h4010),
         Hex(\hD400, \h1001),
         Hex(\h5280, \h014D),
         Hex(\h3901, \h43ED),
         Hex(\hD280, \h0020),
         Hex(\h9101, \h43E1),
         Hex(\hD280, \h0022),
         Hex(\hD280, \h0090),
         Hex(\hF2A0, \h4010),
         Hex(\hD400, \h1001) >>), LAMBDA s34 :
    LET epilogue_off == CodeLen(s34)
    IN
    Then(patch_branch(s34, whole_end_off, epilogue_off), LAMBDA s35 :
    Then(emit_all(s35,
      << Hex(\h9101, \h83FF),
         Hex(\hA8C1, \h7BFD),
         Hex(\hD65F, \h03C0) >>), LAMBDA s36 :
    s36)))

gen_print_float_routine(s) ==
    Then(print_float_whole(print_float_sign(s)), LAMBDA s11 :
    LET whole_end_off == s11.ret
    IN
    Then(print_float_fraction(print_float_int_digits(s11)), LAMBDA s33 :
    print_float_epilogue(s33, whole_end_off)))

(***************************************************************************)
(* ast.py: the nodes the generator reads.  A node is a record with its     *)
(* class in kind; an absent optional node is NoneNode, an absent optional  *)
(* list the empty sequence.  A literal carries the Python type of its      *)
(* value ("int", "bool", "str", "float", "none"); a float is written as    *)
(* its decimal text.                                                       *)
(***************************************************************************)
NoneNode == [kind |-> "None"]

Literal(type, value) == [kind |-> "Literal", type |-> type, value |-> value]

VarRef(name) == [kind |-> "VarRef", name |-> name]

BinaryOp(left, o, right) ==
    [kind |-> "BinaryOp", left |-> left, op |-> o, right |-> right]

UnaryOp(o, operand) == [kind |-> "UnaryOp", op |-> o, operand |-> operand]

IndexAccess(array, index) ==
    [kind |-> "IndexAccess", array |-> array, index |-> index]

ArrayLiteral(elements) == [kind |-> "ArrayLiteral", elements |-> elements]

TupleLiteral(elements) == [kind |-> "TupleLiteral", elements |-> elements]

\* pairs is a sequence of <<key node, value node>>
DictLiteral(pairs) == [kind |-> "DictLiteral", pairs |-> pairs]

FuncCall(name, args) == [kind |-> "FuncCall", name |-> name, args |-> args]

InputExpr(prompt) == [kind |-> "InputExpr", prompt |-> prompt]

PrintStmt(expr) == [kind |-> "PrintStmt", expr |-> expr]

VarDecl(name, value) == [kind |-> "VarDecl", name |-> name, value |-> value]

LoopStmt(var, start, end, body) ==
    [kind |-> "LoopStmt", var |-> var, start |-> start, end |-> end,
     collection |-> NoneNode, condition |-> NoneNode, body |-> body]

\* a loop over a collection: parse_loop leaves start and end None
CollectionLoop(var, collection, body) ==
    [kind |-> "LoopStmt", var |-> var, start |-> NoneNode, end |-> NoneNode,
     collection |-> collection, condition |-> NoneNode, body |-> body]

\* a loop over a condition: parse_loop leaves start and end None
WhileStmt(condition, body) ==
    [kind |-> "LoopStmt", var |-> "_", start |-> NoneNode, end |-> NoneNode,
     collection |-> NoneNode, condition |-> condition, body |-> body]

IfStmt(condition, then_body, else_body) ==
    [kind |-> "IfStmt", condition |-> condition, then_body |-> then_body,
     else_body |-> else_body]

ReturnStmt(value) == [kind |-> "ReturnStmt", value |-> value]

FuncDef(name, params, body) ==
    [kind |-> "FuncDef", name |-> name, params |-> params, body |-> body]

EnumDef(name, cases) == [kind |-> "EnumDef", name |-> name, cases |-> cases]

IntLit(n) == Literal("int", n)

StrLit(str) == Literal("str", str)

\* isinstance(node, Literal) and isinstance(node.value, str)
IsStrLiteral(node) == node.kind = "Literal" /\ node.type = "str"

\* isinstance(node, Literal) and isinstance(node.value, int): a Python bool
\* is an int
IsIntLiteral(node) == node.kind = "Literal" /\ node.type \in {"int", "bool"}

\* the integer a literal's value is used as (True is 1, False is 0)
IntOf(node) ==
    IF node.type = "bool" THEN (IF node.value THEN 1 ELSE 0) ELSE node.value

\* isinstance(node, IndexAccess) and isinstance(node.array, VarRef)
\* and node.array.name in table
IsIndexOf(node, table) ==
    /\ node.kind = "IndexAccess"
    /\ node.array.kind = "VarRef"
    /\ node.array.name \in DOMAIN table

\* isinstance(node, IndexAccess) and isinstance(node.array, IndexAccess) and
\* isinstance(node.array.array, VarRef) and node.array.array.name in table
IsIndex2Of(node, table) ==
    /\ node.kind = "IndexAccess"
    /\ node.array.kind = "IndexAccess"
    /\ node.array.array.kind = "VarRef"
    /\ node.array.array.name \in DOMAIN table

(***************************************************************************)
(* Print helpers                                                           *)
(***************************************************************************)
\* the bl emitted at a print site: 0x94000000 | (delta & 0x3FFFFFF) with
\* delta = (target - len(self.code)) // 4
\* emit_bl_to with the target one instruction past the routine's first word
emit_bl_to_second_word(s, target) ==
    emit(s, Or32(Hex(\h9400, 0),
                 And32(ToWord((target + 4 - CodeLen(s)) \div 4),
                       Hex(\h03FF, \hFFFF))))

emit_bl_to(s, target) ==
    emit(s, Or32(Hex(\h9400, 0),
                 And32(ToWord((target - CodeLen(s)) \div 4),
                       Hex(\h03FF, \hFFFF))))

emit_write_syscall(s, data_offset, length) ==
    Then(emit(s, inst.moves.mov_x0_1), LAMBDA s1 :
    Then(emit_adrp_add(s1, 1, data_offset), LAMBDA s2 :
    Then(emit_mov_imm(s2, 2, length), LAMBDA s3 :
    emit_all(s3, << inst.syscall.movz_x16_4,
                    inst.syscall.movk_x16_0x200_lsl16,
                    inst.syscall.svc >>))))

\* off = self._add_string(str); self._emit_write_syscall(off, length)
write_string(s, str, length) ==
    Then(add_string(s, str), LAMBDA s1 :
    emit_write_syscall(s1, s1.ret, length))

\* _emit_print_cstring: scan to the NUL, write, then write a newline
emit_print_cstring(s) ==
    Then(emit_all(s,
       << Hex(\hAA00, \h03E1),
          Hex(\hAA00, \h03E2) >>), LAMBDA s1 :
    LET scan_loop == CodeLen(s1)
    IN
    Then(emit_all(s1,
       << Hex(\h3940, \h0048),
          Hex(\h9100, \h0442),
          Hex(\h7100, \h011F) >>), LAMBDA s2 :
    LET branch_off == CodeLen(s2)
    IN
    Then(emit_all(s2,
       << Hex(\h5400, \h0001) >>), LAMBDA s3 :
    Then(patch_cond_branch(s3, branch_off, scan_loop, 1), LAMBDA s4 :
    Then(emit_all(s4,
       << Hex(\hCB01, \h0042),
          Hex(\hD100, \h0442),
          Hex(\hD280, \h0020),
          inst.syscall.movz_x16_4,
          inst.syscall.movk_x16_0x200_lsl16,
          inst.syscall.svc,
          Hex(\hD100, \hC3FF),
          Hex(\h5280, \h014D),
          Hex(\h3900, \h03ED),
          Hex(\h9100, \h03E1),
          Hex(\hD280, \h0020),
          Hex(\hD280, \h0022),
          inst.syscall.movz_x16_4,
          inst.syscall.movk_x16_0x200_lsl16,
          inst.syscall.svc,
          Hex(\h9100, \hC3FF) >>), LAMBDA s5 :
    s5)))))

\* _emit_print_cstring_no_newline
emit_print_cstring_no_newline(s) ==
    Then(emit_all(s,
       << Hex(\hAA00, \h03E1),
          Hex(\hAA00, \h03E2) >>), LAMBDA s1 :
    LET scan_loop == CodeLen(s1)
    IN
    Then(emit_all(s1,
       << Hex(\h3940, \h0048),
          Hex(\h9100, \h0442),
          Hex(\h7100, \h011F) >>), LAMBDA s2 :
    LET branch_off == CodeLen(s2)
    IN
    Then(emit_all(s2,
       << Hex(\h5400, \h0001) >>), LAMBDA s3 :
    Then(patch_cond_branch(s3, branch_off, scan_loop, 1), LAMBDA s4 :
    Then(emit_all(s4,
       << Hex(\hCB01, \h0042),
          Hex(\hD100, \h0442),
          Hex(\hD280, \h0020),
          inst.syscall.movz_x16_4,
          inst.syscall.movk_x16_0x200_lsl16,
          inst.syscall.svc >>), LAMBDA s5 :
    s5)))))

\* _emit_print_int_no_newline: the inline copy of the integer print routine
\* without the trailing newline and without the final ret
emit_print_int_no_newline(s) ==
    Then(emit_all(s,
       << Hex(\hA9BF, \h7BFD),
          Hex(\h9100, \h03FD),
          Hex(\hD100, \hC3FF),
          Hex(\h7100, \h001F),
          Hex(\h5400, \h00CA),
          Hex(\h4B00, \h03E8),
          Hex(\h5280, \h05A9),
          Hex(\h3900, \h03E9),
          Hex(\h5280, \h0029),
          Hex(\h1400, \h0003),
          Hex(\h2A00, \h03E8),
          Hex(\h5280, \h0009),
          Hex(\h9100, \h83EA),
          Hex(\h5280, \h014B) >>), LAMBDA s1 :
    LET loop_off == CodeLen(s1)
    IN
    Then(emit_all(s1,
       << Hex(\h1ACB, \h090C),
          Hex(\h1B0B, \hA18C),
          Hex(\h1100, \hC18C),
          Hex(\h381F, \hFD4C),
          Hex(\h1ACB, \h0908),
          Hex(\h7100, \h011F) >>), LAMBDA s2 :
    LET br_off == CodeLen(s2)
    IN
    Then(emit_all(s2,
       << Hex(\h5400, \h0001) >>), LAMBDA s3 :
    Then(patch_cond_branch(s3, br_off, loop_off, 1), LAMBDA s4 :
    Then(emit_all(s4,
       << Hex(\h7100, \h013F),
          Hex(\h5400, \h0060),
          Hex(\h3940, \h03ED),
          Hex(\h381F, \hFD4D),
          Hex(\h9100, \h83EE),
          Hex(\hCB0A, \h01C2),
          Hex(\hAA0A, \h03E1),
          Hex(\hD280, \h0020),
          inst.syscall.movz_x16_4,
          inst.syscall.movk_x16_0x200_lsl16,
          inst.syscall.svc,
          Hex(\h9100, \hC3FF),
          Hex(\hA8C1, \h7BFD) >>), LAMBDA s5 :
    s5)))))

\* the true/false print of a bool slot: load, cmp w0 #0, b.eq to the false
\* text, write of the true text, b over the false text; nl is "" inside a
\* collection and "\n" for an element printed on its own
emit_print_bool(s, offset, nl) ==
    Then(emit(emit_load(s, 0, offset), Hex(\h7100, \h001F)), LAMBDA s1 :
    LET fl == "_tf" \o Str(CodeLen(s1))
        dl == "_td" \o Str(CodeLen(s1))
    IN
    Then(add_branch(s1, fl, "beq"), LAMBDA s2 :
    Then(write_string(s2, "true" \o nl, 4 + Len(nl)), LAMBDA s3 :
    Then(add_branch(s3, dl, "b"), LAMBDA s4 :
    Then(define_label(s4, fl), LAMBDA s5 :
    Then(write_string(s5, "false" \o nl, 5 + Len(nl)), LAMBDA s6 :
    define_label(s6, dl)))))))

(***************************************************************************)
(* Expressions                                                             *)
(***************************************************************************)
RECURSIVE is_float_expr(_, _)
is_float_expr(s, node) ==
    IF node.kind = "Literal" THEN node.type = "float"
    ELSE IF node.kind = "VarRef" THEN node.name \in s.float_vars
    ELSE IF node.kind = "BinaryOp"
    THEN is_float_expr(s, node.left) \/ is_float_expr(s, node.right)
    ELSE IF node.kind = "UnaryOp" THEN is_float_expr(s, node.operand)
    ELSE FALSE

is_enum_expr(s, node) ==
    IF node.kind = "VarRef"
    THEN node.name \in s.enum_var_types \/ node.name \in DOMAIN s.enums
    ELSE IF node.kind = "IndexAccess" /\ node.array.kind = "VarRef"
    THEN node.array.name \in DOMAIN s.enums
    ELSE FALSE

RECURSIVE gen_expr(_, _)
RECURSIVE gen_array_index_load(_, _, _, _)
RECURSIVE gen_call_args(_, _, _)

\* for i, arg in enumerate(node.args[:8]): evaluate arg, park it in w(19+i)
gen_call_args(s, args, i) ==
    IF i >= Len(args) \/ i >= 8 THEN s
    ELSE Then(emit(gen_expr(s, args[i + 1]),
                   Or32(Hex(\h2A00, \h03E0), ToWord(19 + i))),
              LAMBDA t : gen_call_args(t, args, i + 1))

gen_expr(s, node) ==
    IF node.kind = "Literal"
    THEN IF IsIntLiteral(node) THEN emit_mov_imm(s, 0, IntOf(node))
         ELSE emit(s, inst.moves.mov_w0_0)
    ELSE IF node.kind = "VarRef"
    THEN IF node.name \in DOMAIN s.variables
         THEN IF node.name \in s.enum_var_types
              THEN emit_load_x(s, 0, s.variables[node.name])
              ELSE emit_load(s, 0, s.variables[node.name])
         ELSE emit(s, inst.moves.mov_w0_0)
    ELSE IF node.kind = "BinaryOp"
    THEN Then(emit(gen_expr(s, node.left), inst.memory.str_x0_push), LAMBDA s1 :
         Then(emit_all(gen_expr(s1, node.right),
                       << inst.moves.mov_w1_w0, inst.memory.ldr_x0_pop >>), LAMBDA s2 :
         LET o == node.op
         IN
         IF o = "+" THEN emit(s2, inst.arithmetic.add)
         ELSE IF o = "-" THEN emit(s2, inst.arithmetic.sub)
         ELSE IF o = "*" THEN emit(s2, inst.arithmetic.mul)
         ELSE IF o = "/" THEN emit(s2, inst.arithmetic.sdiv)
         ELSE IF o = "%"
         THEN emit_all(s2, << Hex(\h1AC1, \h0C02), Hex(\h1B01, \h8040) >>)
         ELSE IF o = "=="
         THEN emit_all(s2, << inst.compare.cmp_w0_w1, inst.cset.eq >>)
         ELSE IF o = "!="
         THEN emit_all(s2, << inst.compare.cmp_w0_w1, inst.cset.ne >>)
         ELSE IF o = "<"
         THEN emit_all(s2, << inst.compare.cmp_w0_w1, inst.cset.lt >>)
         ELSE IF o = ">"
         THEN emit_all(s2, << inst.compare.cmp_w0_w1, inst.cset.gt >>)
         ELSE s2))
    ELSE IF IsIndexOf(node, s.enums)
    THEN IF IsStrLiteral(node.index)
         THEN Then(add_string(s, node.index.value), LAMBDA s1 :
              emit_adrp_add(s1, 0, s1.ret))
         ELSE s
    ELSE IF IsIndexOf(node, s.arrays)
    THEN gen_array_index_load(s, node.array.name, node.index,
             s.arrays[node.array.name].elem_type = "string")
    ELSE IF IsIndex2Of(node, s.arrays)
            /\ s.arrays[node.array.array.name].elem_type = "nested"
    THEN IF IsIntLiteral(node.array.index)
         THEN LET sub_name == node.array.array.name \o "_"
                                  \o Str(IntOf(node.array.index))
              IN  IF sub_name \in DOMAIN s.arrays
                  THEN gen_array_index_load(s, sub_name, node.index, FALSE)
                  ELSE s
         ELSE s
    ELSE IF node.kind = "FuncCall"
    THEN IF node.name \in DOMAIN s.functions
         THEN LET n == IF Len(node.args) < 8 THEN Len(node.args) ELSE 8
              IN
              Then(gen_call_args(s, node.args, 0), LAMBDA s1 :
              Then(emit_all(s1,
                       [i \in 1..n |->
                           Or32(Or32(Hex(\h2A00, \h03E0), ToWord(i - 1)),
                                Shl32(ToWord(19 + i - 1), 16))]), LAMBDA s2 :
              add_branch(s2, "_" \o node.name, "bl")))
         ELSE s
    ELSE s

gen_array_index_load(s, name, index, is_string) ==
    LET info == s.arrays[name]
    IN  IF IsIntLiteral(index)
        THEN IF is_string
             THEN emit_load_x(s, 0, info.offset + IntOf(index) * 8)
             ELSE emit_load(s, 0, info.offset + IntOf(index) * 8)
        ELSE Then(gen_expr(s, index), LAMBDA s1 :
             LET base_addr == info.offset + 16
             IN
             Then(emit(emit_mov_imm(s1, 1, 8), Hex(\h1B01, \h7C02)), LAMBDA s2 :
             Then(emit_all(emit_mov_imm(s2, 1, base_addr),
                           << Hex(\hCB01, \h03A1), Hex(\h9340, \h7C42),
                              Hex(\hCB02, \h0021) >>), LAMBDA s3 :
             IF is_string THEN emit(s3, Hex(\hF940, \h0020))
             ELSE emit(s3, Hex(\hB940, \h0020)))))

RECURSIVE gen_float_expr(_, _)
gen_float_expr(s, node) ==
    IF node.kind = "Literal"
    THEN IF node.type = "float"
         THEN Then(add_double(s, node.value), LAMBDA s1 :
              emit(emit_adrp_add(s1, 8, s1.ret), Hex(\hFD40, \h0100)))
         ELSE IF IsIntLiteral(node)
         THEN emit(emit_mov_imm(s, 0, IntOf(node)), Hex(\h1E62, \h0000))
         ELSE s
    ELSE IF node.kind = "VarRef"
    THEN IF node.name \in s.float_vars /\ node.name \in DOMAIN s.variables
         THEN emit_load_d(s, 0, s.variables[node.name])
         ELSE IF node.name \in DOMAIN s.variables
         THEN emit(emit_load(s, 0, s.variables[node.name]),
                   Hex(\h1E62, \h0000))
         ELSE s
    ELSE IF node.kind = "BinaryOp"
    THEN Then(emit(gen_float_expr(s, node.left), Hex(\hFC1F, \h0FE0)), LAMBDA s1 :
         Then(emit_all(gen_float_expr(s1, node.right),
                       << Hex(\h1E60, \h4001), Hex(\hFC41, \h07E0) >>), LAMBDA s2 :
         LET o == node.op
         IN
         IF o = "+" THEN emit(s2, Hex(\h1E61, \h2800))
         ELSE IF o = "-" THEN emit(s2, Hex(\h1E61, \h3800))
         ELSE IF o = "*" THEN emit(s2, Hex(\h1E61, \h0800))
         ELSE IF o = "/" THEN emit(s2, Hex(\h1E61, \h1800))
         ELSE IF o = "%"
         THEN emit_all(s2, << Hex(\h1E61, \h1802), Hex(\h1E65, \hC042),
                              Hex(\h1F41, \h8040) >>)
         ELSE s2))
    ELSE IF node.kind = "UnaryOp"
    THEN Then(gen_float_expr(s, node.operand), LAMBDA s1 :
         IF node.op \in {"-", "neg"} THEN emit(s1, Hex(\h1E61, \h4000))
         ELSE s1)
    ELSE s

(***************************************************************************)
(* Declarations                                                            *)
(***************************************************************************)
\* the element type _gen_array_decl decides from the first element
array_elem_type(elems) ==
    IF Len(elems) > 0 /\ IsStrLiteral(elems[1]) THEN "string"
    ELSE IF Len(elems) > 0 /\ elems[1].kind = "ArrayLiteral" THEN "nested"
    ELSE "int"

RECURSIVE gen_array_decl(_, _, _)
RECURSIVE array_decl_subs(_, _, _, _)
RECURSIVE array_decl_sub_slots(_, _, _)
RECURSIVE array_decl_strings(_, _, _)
RECURSIVE array_decl_ints(_, _, _)

\* for i, elem in enumerate(elems): declare each nested literal as name_i;
\* ret carries sub_names
array_decl_subs(s, name, elems, i) ==
    IF i > Len(elems) THEN s
    ELSE IF elems[i].kind = "ArrayLiteral"
    THEN LET sub_name == name \o "_" \o Str(i - 1)
             sub_names == s.ret
         IN
         Then(gen_array_decl(s, sub_name, elems[i]), LAMBDA s1 :
         Then([s1 EXCEPT !.ret = Append(sub_names, sub_name)],
              LAMBDA t : array_decl_subs(t, name, elems, i + 1)))
    ELSE array_decl_subs(s, name, elems, i + 1)

\* for sub_name in sub_names: store the sub-array's offset in the next slot
array_decl_sub_slots(s, sub_names, i) ==
    IF i > Len(sub_names) THEN s
    ELSE LET sub_info == s.arrays[sub_names[i]]
         IN
         Then(emit_store(emit_mov_imm(s, 0, sub_info.offset), 0,
                         s.stack_offset), LAMBDA s1 :
         Then([s1 EXCEPT !.stack_offset = @ + 8],
              LAMBDA t : array_decl_sub_slots(t, sub_names, i + 1)))

array_decl_strings(s, elems, i) ==
    IF i > Len(elems) THEN s
    ELSE IF IsStrLiteral(elems[i])
    THEN Then(add_string(s, elems[i].value), LAMBDA s1 :
         Then(emit_store_x(emit_adrp_add(s1, 0, s1.ret), 0,
                           s1.stack_offset), LAMBDA s2 :
         Then([s2 EXCEPT !.stack_offset = @ + 8],
              LAMBDA t : array_decl_strings(t, elems, i + 1))))
    ELSE array_decl_strings(s, elems, i + 1)

array_decl_int(s, elem) ==
    Then(gen_expr(s, elem), LAMBDA s1 :
    Then(emit_store(s1, 0, s1.stack_offset), LAMBDA s2 :
    [s2 EXCEPT !.stack_offset = @ + 8]))

\* the iterations lo..hi of the element loop, in order
RECURSIVE array_decl_ints_range(_, _, _, _)
array_decl_ints_range(s, elems, lo, hi) ==
    IF lo > hi THEN s
    ELSE IF lo = hi THEN array_decl_int(s, elems[lo])
    ELSE Then(array_decl_ints_range(s, elems, lo, (lo + hi) \div 2),
              LAMBDA t : array_decl_ints_range(t, elems,
                                               (lo + hi) \div 2 + 1, hi))

array_decl_ints(s, elems, i) == array_decl_ints_range(s, elems, i, Len(elems))

gen_array_decl(s, name, arr_lit) ==
    LET base_off == s.stack_offset
        elems == arr_lit.elements
    IN
    Bind(array_elem_type(elems), LAMBDA elem_type :
    IF elem_type = "nested"
    THEN Then(array_decl_subs([s EXCEPT !.ret = << >>],
                              name, elems, 1), LAMBDA s1 :
         LET sub_names == s1.ret
             outer_base == s1.stack_offset
         IN
         Then(array_decl_sub_slots(s1, sub_names, 1), LAMBDA s2 :
         [s2 EXCEPT
            !.arrays = Put(@, name,
                [offset |-> outer_base, count |-> Len(sub_names),
                 elem_type |-> "nested"]),
            !.variables = Put(@, name, outer_base)]))
    ELSE IF elem_type = "string"
    THEN Then(array_decl_strings(s, elems, 1), LAMBDA s1 :
         [s1 EXCEPT
            !.arrays = Put(@, name,
                [offset |-> base_off, count |-> Len(elems),
                 elem_type |-> "string"]),
            !.variables = Put(@, name, base_off)])
    ELSE Then(array_decl_ints(s, elems, 1), LAMBDA s1 :
         [s1 EXCEPT
            !.arrays = Put(@, name,
                [offset |-> base_off, count |-> Len(elems),
                 elem_type |-> "int"]),
            !.variables = Put(@, name, base_off)]))

\* the type tag _gen_tuple_decl records for one element
tuple_elem_type(elem) ==
    IF elem.kind = "Literal" /\ elem.type = "str" THEN "string"
    ELSE IF elem.kind = "Literal" /\ elem.type = "bool" THEN "bool"
    ELSE "int"

RECURSIVE tuple_decl_elems(_, _, _)
tuple_decl_elems(s, elems, i) ==
    IF i > Len(elems) THEN s
    ELSE LET elem == elems[i]
         IN
         Then(IF elem.kind = "Literal"
              THEN IF elem.type = "str"
                   THEN Bind(add_string(s, elem.value), LAMBDA a :
                        emit_store_x(emit_adrp_add(a, 0, a.ret), 0,
                                     a.stack_offset))
                   ELSE IF elem.type = "bool"
                   THEN emit_store(
                            emit_mov_imm(s, 0,
                                IF elem.value THEN 1 ELSE 0),
                            0, s.stack_offset)
                   ELSE IF elem.type = "int"
                   THEN emit_store(emit_mov_imm(s, 0, elem.value), 0,
                                   s.stack_offset)
                   ELSE emit_store(emit(s, inst.moves.mov_w0_0), 0,
                                   s.stack_offset)
              ELSE Bind(gen_expr(s, elem), LAMBDA e :
                   emit_store(e, 0, e.stack_offset)), LAMBDA s1 :
         Then([s1 EXCEPT !.stack_offset = @ + 8],
              LAMBDA t : tuple_decl_elems(t, elems, i + 1)))

gen_tuple_decl(s, name, tup_lit) ==
    LET base_off == s.stack_offset
        elems == tup_lit.elements
    IN
    Bind([i \in 1..Len(elems) |-> tuple_elem_type(elems[i])], LAMBDA types :
    Then(tuple_decl_elems(s, elems, 1), LAMBDA s1 :
    [s1 EXCEPT
       !.tuples = Put(@, name, [offset |-> base_off, types |-> types]),
       !.variables = Put(@, name, base_off)]))

\* for pair in dict_lit.pairs, entries being the list built so far
RECURSIVE dict_decl_pairs(_, _, _, _, _)
dict_decl_pairs(s, name, pairs, i, entries) ==
    IF i > Len(pairs) THEN [s EXCEPT !.ret = entries]
    ELSE IF ~IsStrLiteral(pairs[i][1])
    THEN dict_decl_pairs(s, name, pairs, i + 1, entries)
    ELSE
    LET key == pairs[i][1].value
        val == pairs[i][2]
        off == s.stack_offset
        entry(type, offset, sub_array) ==
            [key |-> key, type |-> type, offset |-> offset,
             sub_array |-> sub_array]
    IN  IF val.kind = "ArrayLiteral"
        THEN LET sub_name == name \o "_" \o key
             IN  Then(gen_array_decl(s, sub_name, val),
                      LAMBDA t : dict_decl_pairs(t, name, pairs, i + 1,
                          Append(entries, entry("int", 0, sub_name))))
        ELSE IF val.kind = "Literal"
        THEN Then(IF val.type = "str"
                  THEN Bind(add_string(s, val.value), LAMBDA a :
                       emit_store_x(emit_adrp_add(a, 0, a.ret), 0, off))
                  ELSE IF val.type = "bool"
                  THEN emit_store(
                           emit_mov_imm(s, 0, IF val.value THEN 1 ELSE 0),
                           0, off)
                  ELSE IF val.type = "int"
                  THEN emit_store(emit_mov_imm(s, 0, val.value), 0, off)
                  ELSE s, LAMBDA s1 :
             LET type == IF val.type = "str" THEN "string"
                         ELSE IF val.type = "bool" THEN "bool"
                         ELSE "int"
             IN
             Then([s1 EXCEPT !.stack_offset = @ + 8],
                  LAMBDA t : dict_decl_pairs(t, name, pairs, i + 1,
                      Append(entries, entry(type, off, None)))))
        ELSE dict_decl_pairs(s, name, pairs, i + 1, entries)

gen_dict_decl(s, name, dict_lit) ==
    Then(dict_decl_pairs(s, name, dict_lit.pairs, 1, << >>), LAMBDA s1 :
    LET entries == s1.ret
    IN
    [s1 EXCEPT !.dicts = Put(@, name, entries),
               !.variables = Put(@, name, s1.stack_offset)])

gen_var_decl(s, node) ==
    LET s0 == IF IsIndexOf(node.value, s.enums)
              THEN [s EXCEPT !.enum_var_types = @ \cup {node.name}]
              ELSE s
    IN  IF node.value.kind = "ArrayLiteral"
        THEN gen_array_decl(s0, node.name, node.value)
        ELSE IF node.value.kind = "TupleLiteral"
        THEN gen_tuple_decl(s0, node.name, node.value)
        ELSE IF node.value.kind = "DictLiteral"
        THEN gen_dict_decl(s0, node.name, node.value)
        ELSE IF is_float_expr(s0, node.value)
        THEN Then(gen_float_expr(s0, node.value), LAMBDA s1 :
             LET s2 == IF node.name \notin DOMAIN s1.variables
                       THEN [s1 EXCEPT
                               !.variables = Put(@, node.name,
                                                 s1.stack_offset),
                               !.stack_offset = @ + 8]
                       ELSE s1
                 s3 == [s2 EXCEPT !.float_vars = @ \cup {node.name}]
             IN
             emit_store_d(s3, 0, s3.variables[node.name]))
        ELSE Then(gen_expr(s0, node.value), LAMBDA s1 :
             LET s2 == IF node.name \notin DOMAIN s1.variables
                       THEN [s1 EXCEPT
                               !.variables = Put(@, node.name,
                                                 s1.stack_offset),
                               !.stack_offset = @ + 8]
                       ELSE s1
             IN
             emit_store_x(s2, 0, s2.variables[node.name]))

(***************************************************************************)
(* Printing                                                                *)
(***************************************************************************)
\* for i in range(info['count']): ", " before every element but the first,
\* then the element by kind ("string": pointer slot as C string, "int":
\* 32-bit slot as integer, "sub": the sub-array name_i inline when declared)
RECURSIVE print_array_elems(_, _, _, _, _)
RECURSIVE emit_print_full_array_inline(_, _, _)

print_array_elem(s, name, info, kind, i) ==
    Then(IF i > 0 THEN write_string(s, ", ", 2) ELSE s, LAMBDA s1 :
    IF kind = "string"
    THEN emit_print_cstring_no_newline(
             emit_load_x(s1, 0, info.offset + i * 8))
    ELSE IF kind = "sub"
    THEN LET sub_name == name \o "_" \o Str(i)
         IN  IF sub_name \in DOMAIN s1.arrays
             THEN emit_print_full_array_inline(s1, sub_name,
                      s1.arrays[sub_name])
             ELSE s1
    ELSE emit_print_int_no_newline(
             emit_load(s1, 0, info.offset + i * 8)))

\* the iterations lo..hi of the element loop, in order
RECURSIVE print_array_elems_range(_, _, _, _, _, _)
print_array_elems_range(s, name, info, kind, lo, hi) ==
    IF lo > hi THEN s
    ELSE IF lo = hi THEN print_array_elem(s, name, info, kind, lo)
    ELSE Then(print_array_elems_range(s, name, info, kind, lo,
                                      (lo + hi) \div 2),
              LAMBDA t : print_array_elems_range(t, name, info, kind,
                                                 (lo + hi) \div 2 + 1, hi))

print_array_elems(s, name, info, kind, i) ==
    print_array_elems_range(s, name, info, kind, i, info.count - 1)

emit_print_full_array_inline(s, name, info) ==
    Then(write_string(s, "[", 1), LAMBDA s1 :
    Then(print_array_elems(s1, name, info, "int", 0), LAMBDA s2 :
    write_string(s2, "]", 1)))

\* emit_print_full_array with the closing bracket written without a newline
emit_print_full_array_no_newline(s, name, info) ==
    Then(write_string(s, "[", 1), LAMBDA s1 :
    Then(IF info.elem_type = "string"
         THEN print_array_elems(s1, name, info, "string", 0)
         ELSE IF info.elem_type = "nested"
         THEN print_array_elems(s1, name, info, "sub", 0)
         ELSE print_array_elems(s1, name, info, "int", 0), LAMBDA s2 :
    write_string(s2, "]", 1)))

emit_print_full_array(s, name, info) ==
    Then(write_string(s, "[", 1), LAMBDA s1 :
    Then(IF info.elem_type = "string"
         THEN print_array_elems(s1, name, info, "string", 0)
         ELSE IF info.elem_type = "nested"
         THEN print_array_elems(s1, name, info, "sub", 0)
         ELSE print_array_elems(s1, name, info, "int", 0), LAMBDA s2 :
    write_string(s2, "]\n", 2)))

\* for i, t in enumerate(tup['types']) of the whole-tuple print
RECURSIVE print_tuple_elems(_, _, _)
print_tuple_elems(s, tup, i) ==
    IF i >= Len(tup.types) THEN s
    ELSE LET t == tup.types[i + 1]
         IN
         Then(IF i > 0 THEN write_string(s, ", ", 2) ELSE s, LAMBDA s1 :
         Then(IF t = "string"
              THEN emit_print_cstring_no_newline(
                       emit_load_x(s1, 0, tup.offset + i * 8))
              ELSE IF t = "bool"
              THEN emit_print_bool(s1, tup.offset + i * 8, "")
              ELSE emit_print_int_no_newline(
                       emit_load(s1, 0, tup.offset + i * 8)), LAMBDA s2 :
         Then(s2, LAMBDA u : print_tuple_elems(u, tup, i + 1))))

\* for i, e in enumerate(entries) of the whole-dictionary print
RECURSIVE print_dict_entries(_, _, _)
print_dict_entries(s, entries, i) ==
    IF i >= Len(entries) THEN s
    ELSE LET e == entries[i + 1]
         IN
         Then(IF i > 0 THEN write_string(s, ", ", 2) ELSE s, LAMBDA s1 :
         Then(write_string(s1, "\"" \o e.key \o "\": ", Len(e.key) + 4), LAMBDA s2 :
         Then(IF e.type = "string"
              THEN emit_print_cstring_no_newline(
                       emit_load_x(s2, 0, e.offset))
              ELSE IF e.type = "bool"
              THEN emit_print_bool(s2, e.offset, "")
              ELSE IF e.sub_array # None
                      /\ e.sub_array \in DOMAIN s2.arrays
              THEN emit_print_full_array_inline(s2, e.sub_array,
                       s2.arrays[e.sub_array])
              ELSE emit_print_int_no_newline(
                       emit_load(s2, 0, e.offset)), LAMBDA s3 :
         Then(s3, LAMBDA t : print_dict_entries(t, entries, i + 1)))))

\* next((e for e in entries if e['key'] == key), None): the index of the
\* first entry with the key, 0 when there is none
RECURSIVE find_entry(_, _, _)
find_entry(entries, key, i) ==
    IF i > Len(entries) THEN 0
    ELSE IF entries[i].key = key THEN i
    ELSE find_entry(entries, key, i + 1)

\* ", ".join(f'"{c}": {c}' for c in cases)
RECURSIVE enum_parts(_, _)
enum_parts(cases, i) ==
    IF i > Len(cases) THEN ""
    ELSE (IF i > 1 THEN ", " ELSE "")
         \o "\"" \o cases[i] \o "\": " \o cases[i] \o enum_parts(cases, i + 1)

\* t = types[i] for a Python index i (negative counts from the end)
PyIndex(seq, i) == IF i >= 0 THEN seq[i + 1] ELSE seq[Len(seq) + i + 1]

gen_print(s, node) ==
    LET expr == node.expr
    IN
    IF IsStrLiteral(expr)
    THEN LET str_with_newline == expr.value \o "\n"
         IN  write_string(s, str_with_newline,
                          Len(encode_utf8(str_with_newline)))
    ELSE IF expr.kind = "VarRef" /\ expr.name \in s.enum_var_types
    THEN emit_print_cstring(emit_load_x(s, 0, s.variables[expr.name]))
    ELSE IF IsIndexOf(expr, s.enums)
    THEN IF IsStrLiteral(expr.index)
         THEN LET str == expr.index.value \o "\n"
              IN  write_string(s, str, Len(encode_utf8(str)))
         ELSE s
    ELSE IF expr.kind = "VarRef" /\ expr.name \in DOMAIN s.enums
    THEN Bind("{" \o enum_parts(s.enums[expr.name], 1) \o "}\n", LAMBDA str :
         write_string(s, str, Len(encode_utf8(str))))
    ELSE IF expr.kind = "VarRef" /\ expr.name \in DOMAIN s.tuples
    THEN Then(write_string(s, "(", 1), LAMBDA s1 :
         Then(print_tuple_elems(s1, s.tuples[expr.name], 0), LAMBDA s2 :
         write_string(s2, ")\n", 2)))
    ELSE IF IsIndexOf(expr, s.tuples)
    THEN LET tup == s.tuples[expr.array.name]
             i == IntOf(expr.index)
         IN  IF IsIntLiteral(expr.index) /\ i < Len(tup.types)
             THEN LET t == PyIndex(tup.types, i)
                  IN  IF t = "string"
                      THEN emit_print_cstring(
                               emit_load_x(s, 0, tup.offset + i * 8))
                      ELSE IF t = "bool"
                      THEN emit_print_bool(s, tup.offset + i * 8, "\n")
                      ELSE Then(emit_load(s, 0, tup.offset + i * 8), LAMBDA s1 :
                           emit_bl_to(s1, s1.print_int_offset))
             ELSE s
    ELSE IF expr.kind = "VarRef" /\ expr.name \in DOMAIN s.dicts
    THEN LET entries == s.dicts[expr.name]
         IN  IF Len(entries) = 0 THEN write_string(s, "{}\n", 3)
             ELSE Then(write_string(s, "{", 1), LAMBDA s1 :
                  Then(print_dict_entries(s1, entries, 0), LAMBDA s2 :
                  write_string(s2, "}\n", 2)))
    ELSE IF IsIndexOf(expr, s.dicts)
    THEN LET entries == s.dicts[expr.array.name]
         IN
         Bind(IF IsStrLiteral(expr.index)
              THEN find_entry(entries, expr.index.value, 1) ELSE 0, LAMBDA k :
         IF k = 0 THEN s
         ELSE LET entry == entries[k]
              IN  IF entry.type = "string"
                  THEN emit_print_cstring(
                           emit_load_x(s, 0, entry.offset))
                  ELSE IF entry.type = "bool"
                  THEN emit_print_bool(s, entry.offset, "\n")
                  ELSE IF entry.sub_array # None
                          /\ entry.sub_array \in DOMAIN s.arrays
                  THEN emit_print_full_array(s, entry.sub_array,
                           s.arrays[entry.sub_array])
                  ELSE Then(emit_load(s, 0, entry.offset), LAMBDA s1 :
                       emit_bl_to(s1, s1.print_int_offset)))
    ELSE IF IsIndex2Of(expr, s.dicts)
    THEN LET entries == s.dicts[expr.array.array.name]
         IN
         Bind(IF IsStrLiteral(expr.array.index)
              THEN find_entry(entries, expr.array.index.value, 1) ELSE 0, LAMBDA k :
         IF k # 0 /\ entries[k].sub_array # None
            /\ entries[k].sub_array \in DOMAIN s.arrays
         THEN LET sub == entries[k].sub_array
                  is_str == s.arrays[sub].elem_type = "string"
              IN
              Then(gen_array_index_load(s, sub, expr.index, is_str), LAMBDA s1 :
              IF is_str THEN emit_print_cstring(s1)
              ELSE emit_bl_to(s1, s1.print_int_offset))
         ELSE s)
    ELSE IF expr.kind = "VarRef" /\ expr.name \in DOMAIN s.arrays
    THEN emit_print_full_array(s, expr.name, s.arrays[expr.name])
    ELSE IF IsIndexOf(expr, s.arrays)
    THEN LET info == s.arrays[expr.array.name]
         IN  IF info.elem_type = "string"
             THEN emit_print_cstring(
                      gen_array_index_load(s, expr.array.name, expr.index,
                                           TRUE))
             ELSE IF info.elem_type = "nested"
             THEN IF IsIntLiteral(expr.index)
                  THEN LET sub_name == expr.array.name \o "_"
                                           \o Str(IntOf(expr.index))
                       IN  IF sub_name \in DOMAIN s.arrays
                           THEN emit_print_full_array(s, sub_name,
                                    s.arrays[sub_name])
                           ELSE s
                  ELSE s
             ELSE Then(gen_array_index_load(s, expr.array.name,
                                            expr.index, FALSE), LAMBDA s1 :
                  emit_bl_to(s1, s1.print_int_offset))
    ELSE IF IsIndex2Of(expr, s.arrays)
            /\ s.arrays[expr.array.array.name].elem_type = "nested"
    THEN IF IsIntLiteral(expr.array.index)
         THEN LET sub_name == expr.array.array.name \o "_"
                                  \o Str(IntOf(expr.array.index))
              IN  IF sub_name \in DOMAIN s.arrays
                  THEN Then(gen_array_index_load(s, sub_name,
                                                 expr.index, FALSE), LAMBDA s1 :
                       emit_bl_to(s1, s1.print_int_offset))
                  ELSE s
         ELSE s
    ELSE IF is_float_expr(s, expr)
    THEN Then(gen_float_expr(s, expr), LAMBDA s1 :
         emit_bl_to(s1, s1.print_float_offset))
    ELSE Then(gen_expr(s, expr), LAMBDA s1 :
         emit_bl_to(s1, s1.print_int_offset))

(***************************************************************************)
(* Statements, functions and the compile driver                            *)
(***************************************************************************)
\* the branch to the else label for a comparison operator: taken when the
\* comparison is false
if_branch_type(o) ==
    CASE o = "==" -> "bne"
      [] o = "!=" -> "beq"
      [] o = "<"  -> "bge"
      [] o = ">"  -> "ble"
      [] o = "<=" -> "bgt"
      [] o = ">=" -> "blt"
      [] OTHER -> None

RECURSIVE gen_stmt(_, _)
RECURSIVE gen_stmts(_, _, _)

\* for stmt in stmts: self._gen_stmt(stmt)
gen_stmts(s, stmts, i) ==
    IF i > Len(stmts) THEN s
    ELSE Then(gen_stmt(s, stmts[i]), LAMBDA t : gen_stmts(t, stmts, i + 1))

\* _gen_loop with the end expression evaluated again before every test
gen_loop_end_reevaluated(s, node) ==
    IF node.start.kind = "None" \/ node.end.kind = "None" THEN s
    ELSE
    LET loop_label == "_L" \o Str(CodeLen(s))
        end_label == "_E" \o Str(CodeLen(s))
    IN
    Then(gen_expr(s, node.start), LAMBDA s1 :
    LET s2 == IF node.var \notin DOMAIN s1.variables
              THEN [s1 EXCEPT
                      !.variables = Put(@, node.var, s1.stack_offset),
                      !.stack_offset = @ + 8]
              ELSE s1
        var_off == s2.variables[node.var]
    IN
    Then(emit_store(s2, 0, var_off), LAMBDA s3 :
    Then(gen_expr(define_label(s3, loop_label), node.end), LAMBDA s4 :
    LET end_off == s4.stack_offset
    IN
    Then(emit_store([s4 EXCEPT !.stack_offset = @ + 8], 0, end_off), LAMBDA s5 :
    Then(emit(emit_load(emit_load(s5, 0, var_off), 1, end_off),
              inst.compare.cmp_w0_w1), LAMBDA s7 :
    Then(add_branch(s7, end_label, "bge"), LAMBDA s8 :
    Then(gen_stmts(s8, node.body, 1), LAMBDA s9 :
    Then(emit_store(
             emit(emit_load(s9, 0, var_off), inst.arithmetic.add_w0_1),
             0, var_off), LAMBDA s10 :
    Then(add_branch(s10, loop_label, "b"), LAMBDA s11 :
    define_label(s11, end_label))))))))))

gen_loop(s, node) ==
    IF node.start.kind = "None" \/ node.end.kind = "None" THEN s
    ELSE
    LET loop_label == "_L" \o Str(CodeLen(s))
        end_label == "_E" \o Str(CodeLen(s))
    IN
    Then(gen_expr(s, node.start), LAMBDA s1 :
    LET s2 == IF node.var \notin DOMAIN s1.variables
              THEN [s1 EXCEPT
                      !.variables = Put(@, node.var, s1.stack_offset),
                      !.stack_offset = @ + 8]
              ELSE s1
        var_off == s2.variables[node.var]
    IN
    Then(emit_store(s2, 0, var_off), LAMBDA s3 :
    Then(gen_expr(s3, node.end), LAMBDA s4 :
    LET end_off == s4.stack_offset
    IN
    Then(emit_store([s4 EXCEPT !.stack_offset = @ + 8], 0, end_off), LAMBDA s5 :
    Then(define_label(s5, loop_label), LAMBDA s6 :
    Then(emit(emit_load(emit_load(s6, 0, var_off), 1, end_off),
              inst.compare.cmp_w0_w1), LAMBDA s7 :
    Then(add_branch(s7, end_label, "bge"), LAMBDA s8 :
    Then(gen_stmts(s8, node.body, 1), LAMBDA s9 :
    Then(emit_store(
             emit(emit_load(s9, 0, var_off), inst.arithmetic.add_w0_1),
             0, var_off), LAMBDA s10 :
    Then(add_branch(s10, loop_label, "b"), LAMBDA s11 :
    define_label(s11, end_label)))))))))))

gen_if(s, node) ==
    LET else_label == "_else" \o Str(CodeLen(s))
        end_label == "_end" \o Str(CodeLen(s))
        cond == node.condition
    IN
    Then(IF cond.kind = "BinaryOp"
         THEN Bind(is_float_expr(s, cond.left)
                       \/ is_float_expr(s, cond.right), LAMBDA use_float :
              Bind(if_branch_type(cond.op), LAMBDA bt :
              IF use_float
              THEN Bind(emit(gen_float_expr(s, cond.left),
                             Hex(\hFC1F, \h0FE0)), LAMBDA f1 :
                   Bind(emit_all(gen_float_expr(f1, cond.right),
                            << Hex(\h1E60, \h4001),
                               Hex(\hFC41, \h07E0),
                               Hex(\h1E61, \h2010) >>), LAMBDA f2 :
                   IF bt = None THEN f2
                   ELSE add_branch(f2, else_label, bt)))
              ELSE Bind(is_enum_expr(s, cond.left)
                            \/ is_enum_expr(s, cond.right), LAMBDA is_enum_cmp :
                   Bind(emit(gen_expr(s, cond.left),
                             IF is_enum_cmp
                             THEN Hex(\hAA00, \h03E9)
                             ELSE inst.moves.mov_w9_w0), LAMBDA e1 :
                   Bind(emit(gen_expr(e1, cond.right),
                             IF is_enum_cmp
                             THEN Hex(\hEB00, \h013F)
                             ELSE inst.compare.cmp_w9_w0), LAMBDA e2 :
                   IF bt = None THEN e2
                   ELSE add_branch(e2, else_label, bt))))))
         ELSE add_branch(emit(gen_expr(s, cond), inst.compare.cmp_w0_0),
                         else_label, "beq"), LAMBDA s1 :
    Then(gen_stmts(s1, node.then_body, 1), LAMBDA s2 :
    LET has_else == Len(node.else_body) > 0
    IN
    Then(IF has_else THEN add_branch(s2, end_label, "b") ELSE s2, LAMBDA s3 :
    Then(define_label(s3, else_label), LAMBDA s4 :
    IF has_else
    THEN define_label(gen_stmts(s4, node.else_body, 1), end_label)
    ELSE s4))))

\* for case_name in node.cases: self._add_string(case_name)
RECURSIVE add_strings(_, _, _)
add_strings(s, strs, i) ==
    IF i > Len(strs) THEN s
    ELSE Then(add_string(s, strs[i]), LAMBDA t : add_strings(t, strs, i + 1))

\* a variant whose statements without a case leave a mov w0, #0, as the
\* literals without a case do
gen_stmt_default_zero(s, node) ==
    IF node.kind = "PrintStmt" THEN gen_print(s, node)
    ELSE IF node.kind = "VarDecl" THEN gen_var_decl(s, node)
    ELSE IF node.kind = "LoopStmt" THEN gen_loop(s, node)
    ELSE IF node.kind = "IfStmt" THEN gen_if(s, node)
    ELSE IF node.kind = "ReturnStmt"
    THEN add_branch(gen_expr(s, node.value),
                    "_" \o s.current_func \o "_ret", "b")
    ELSE IF node.kind = "EnumDef"
    THEN add_strings([s EXCEPT !.enums = Put(@, node.name, node.cases)],
                     node.cases, 1)
    ELSE emit(s, inst.moves.mov_w0_0)

gen_stmt(s, node) ==
    IF node.kind = "PrintStmt" THEN gen_print(s, node)
    ELSE IF node.kind = "VarDecl" THEN gen_var_decl(s, node)
    ELSE IF node.kind = "LoopStmt" THEN gen_loop(s, node)
    ELSE IF node.kind = "IfStmt" THEN gen_if(s, node)
    ELSE IF node.kind = "ReturnStmt"
    THEN add_branch(gen_expr(s, node.value),
                    "_" \o s.current_func \o "_ret", "b")
    ELSE IF node.kind = "EnumDef"
    THEN add_strings([s EXCEPT !.enums = Put(@, node.name, node.cases)],
                     node.cases, 1)
    ELSE s

\* for i, param in enumerate(node.params): one slot per parameter
RECURSIVE func_params(_, _, _)
func_params(s, params, i) ==
    IF i >= Len(params) THEN s
    ELSE LET s1 == [s EXCEPT
                      !.variables = Put(@, params[i + 1], s.stack_offset)]
         IN
         Then(emit_store(s1, i, s1.stack_offset), LAMBDA s2 :
         Then([s2 EXCEPT !.stack_offset = @ + 8],
              LAMBDA t : func_params(t, params, i + 1)))

\* _gen_func up to the loop over the body: the entry label, the prologue, an
\* empty variable table at stack_offset 16, one slot per parameter
gen_func_enter(s, node) ==
    Then(define_label([s EXCEPT !.current_func = node.name],
                      "_" \o node.name), LAMBDA s1 :
    Then(emit_all(s1, << inst.prologue.stp_fp_lr,
                         inst.prologue.stp_x19_x20,
                         inst.prologue.mov_fp_sp,
                         Hex(\hD104, \h03FF) >>), LAMBDA s2 :
    func_params([s2 EXCEPT !.variables = EmptyDict, !.stack_offset = 16],
                node.params, 0)))

\* a variant that leaves the function's table and stack_offset in place
gen_func_exit_keep(s, node, old_vars, old_offset) ==
    Then(emit(s, inst.moves.mov_w0_0), LAMBDA s6 :
    Then(define_label(s6, "_" \o node.name \o "_ret"), LAMBDA s7 :
    Then(emit_all(s7, << Hex(\h9104, \h03FF),
                         inst.epilogue.ldp_x19_x20,
                         inst.epilogue.ldp_fp_lr,
                         inst.epilogue.ret >>), LAMBDA s8 :
    [s8 EXCEPT !.current_func = None])))

\* _gen_func after the loop over the body: the zeroing instruction, the
\* exit label, the epilogue, and the caller's table and stack_offset restored
gen_func_exit(s, node, old_vars, old_offset) ==
    Then(emit(s, inst.moves.mov_w0_0), LAMBDA s6 :
    Then(define_label(s6, "_" \o node.name \o "_ret"), LAMBDA s7 :
    Then(emit_all(s7, << Hex(\h9104, \h03FF),
                         inst.epilogue.ldp_x19_x20,
                         inst.epilogue.ldp_fp_lr,
                         inst.epilogue.ret >>), LAMBDA s8 :
    [s8 EXCEPT !.variables = old_vars, !.stack_offset = old_offset,
               !.current_func = None])))

gen_func(s, node) ==
    Then(gen_func_enter(s, node), LAMBDA s4 :
    Then(gen_stmts(s4, node.body, 1), LAMBDA s5 :
    gen_func_exit(s5, node, s.variables, s.stack_offset)))

\* for stmt in program.statements: if isinstance(stmt, FuncDef): register it
RECURSIVE collect_funcs(_, _, _)
collect_funcs(s, stmts, i) ==
    IF i > Len(stmts) THEN s
    ELSE IF stmts[i].kind = "FuncDef"
    THEN collect_funcs(
             [s EXCEPT !.functions =
                  Put(@, stmts[i].name,
                      [code_offset |-> 0, def |-> stmts[i]])],
             stmts, i + 1)
    ELSE collect_funcs(s, stmts, i + 1)

\* for stmt in program.statements: if isinstance(stmt, FuncDef): generate it
RECURSIVE gen_funcs(_, _, _)
gen_funcs(s, stmts, i) ==
    IF i > Len(stmts) THEN s
    ELSE IF stmts[i].kind = "FuncDef"
    THEN Then(gen_func([s EXCEPT !.functions[stmts[i].name].code_offset =
                                     CodeLen(s)],
                       stmts[i]),
              LAMBDA t : gen_funcs(t, stmts, i + 1))
    ELSE gen_funcs(s, stmts, i + 1)

\* [s for s in program.statements if not isinstance(s, FuncDef)]
RECURSIVE main_stmts_of(_, _)
main_stmts_of(stmts, i) ==
    IF i > Len(stmts) THEN << >>
    ELSE IF stmts[i].kind = "FuncDef" THEN main_stmts_of(stmts, i + 1)
    ELSE << stmts[i] >> \o main_stmts_of(stmts, i + 1)

\* compile up to the loop that generates the user functions: the buffers
\* reset, the two helper routines, the function table
compile_collect(s, statements) ==
    LET s0 == [s EXCEPT
                 !.code = << >>, !.data = << >>, !.variables = EmptyDict,
                 !.functions = EmptyDict, !.label_offsets = EmptyDict,
                 !.pending_branches = << >>, !.string_offsets = EmptyDict,
                 !.stack_offset = 0, !.enums = EmptyDict,
                 !.enum_var_types = {}, !.arrays = EmptyDict,
                 !.tuples = EmptyDict, !.dicts = EmptyDict,
                 !.float_vars = {}]
    IN
    Then(gen_print_int_routine([s0 EXCEPT !.print_int_offset = CodeLen(s0)]), LAMBDA s1 :
    Then(gen_print_float_routine(
             [s1 EXCEPT !.print_float_offset = CodeLen(s1)]), LAMBDA s2 :
    collect_funcs(s2, statements, 1)))

\* main_offset (in ret), main's prologue, and main's empty variable table
compile_prologue(s4) ==
    LET main_off == CodeLen(s4)
    IN
    Then(emit_all(s4, << inst.prologue.stp_fp_lr,
                         inst.prologue.stp_x19_x20,
                         inst.prologue.mov_fp_sp,
                         Hex(\hD104, \h03FF) >>), LAMBDA s5 :
    [s5 EXCEPT !.stack_offset = 16, !.variables = EmptyDict,
               !.ret = main_off])

\* compile up to and including main's prologue: the buffers reset, the two
\* helper routines, the user functions, main_offset (in ret), the prologue
compile_begin(s, statements) ==
    Then(compile_collect(s, statements), LAMBDA s3 :
    Then(gen_funcs(s3, statements, 1), LAMBDA s4 :
    compile_prologue(s4)))

\* the exit(0) epilogue that ends main
compile_exit(s) ==
    emit_all(s, << inst.moves.mov_w0_0,
                   inst.syscall.movz_x16_1,
                   inst.syscall.movk_x16_0x200_lsl16,
                   inst.syscall.svc >>)

\* the exit(0) epilogue and the branch resolution that end code generation
compile_end(s) == resolve_branches(compile_exit(s))

\* compile, up to the call of _write_macho(output_path, main_offset); the
\* result carries main_offset in ret
compile_code(s, statements) ==
    Then(compile_begin(s, statements), LAMBDA s1 :
    LET main_off == s1.ret
    IN
    Then(s1, LAMBDA t1 :
        Then(gen_stmts(t1, main_stmts_of(statements, 1), 1), LAMBDA t2 :
            [compile_end(t2) EXCEPT !.ret = main_off])))

(***************************************************************************)
(* arm64.json "macho": the container constants the generator reads from    *)
(* its configuration (Mach-O, arm64, 16 KB pages)                          *)
(***************************************************************************)
macho ==
    [magic |-> Hex(\hFEED, \hFACF),
     cputype |-> Hex(\h0100, \h000C),
     cpusubtype |-> Hex(0, 0),
     filetype |-> Hex(0, 2),
     flags |-> Hex(\h0020, \h0085),
     pageSize |-> 16384,
     textStart |-> <<1, 0, 0>>,
     dylinkerPath |-> "/usr/lib/dyld",
     minOS |-> Hex(\h000B, 0),
     sdk |-> Hex(\h000B, 0),
     vmProt |-> [read |-> 1, write |-> 2, execute |-> 4],
     sectionTypes |-> [code |-> Hex(\h8000, \h0400), cstring |-> Hex(0, 2)],
     cmdSizes |-> [segment |-> 72, section |-> 80, dylinker |-> 44,
                   buildVersion |-> 24, symtab |-> 24, chainedFixups |-> 16,
                   exportTrie |-> 16, main |-> 24],
     loadCommands |->
         [LC_SEGMENT_64 |-> Hex(0, \h19),
          LC_LOAD_DYLINKER |-> Hex(0, \h0E),
          LC_BUILD_VERSION |-> Hex(0, \h32),
          LC_SYMTAB |-> Hex(0, 2),
          LC_DYLD_CHAINED_FIXUPS |-> Hex(\h8000, \h0034),
          LC_DYLD_EXPORTS_TRIE |-> Hex(\h8000, \h0033),
          LC_MAIN |-> Hex(\h8000, \h0028)]]

(***************************************************************************)
(* 64-bit values and struct.pack.  A 64-bit value is <<h, m, l>>: bits 32  *)
(* to 47, bits 16 to 31, bits 0 to 15 (bits 48 and up are zero in every    *)
(* address and size of the container).                                     *)
(***************************************************************************)
\* the 64-bit value of a non-negative integer below 2^31
Int64(n) == <<0, n \div 65536, n % 65536>>

\* x + k for a 64-bit x and an integer k
AddX(x, k) ==
    LET t0 == x[3] + (k % 65536)
        t1 == x[2] + (k \div 65536) + (t0 \div 65536)
    IN  <<x[1] + (t1 \div 65536), t1 % 65536, t0 % 65536>>

\* a - b for two 64-bit values, as an integer
Diff64(a, b) == ((a[1] - b[1]) * 65536 + (a[2] - b[2])) * 65536 + (a[3] - b[3])

\* x & ~0xFFF
PageOf(x) == <<x[1], x[2], x[3] - (x[3] % 4096)>>

\* x & 0xFFF
PageOffset(x) == x[3] % 4096

\* struct.pack('<I', w) of a word
pack_I(w) == <<w[2] % 256, w[2] \div 256, w[1] % 256, w[1] \div 256>>

\* struct.pack('<Q', x) of a 64-bit value
pack_Q(x) == pack_I(<<x[2], x[3]>>) \o <<x[1] % 256, x[1] \div 256, 0, 0>>

\* struct.unpack('<I', bytes)[0]
unpack_I(bytes) == <<bytes[4] * 256 + bytes[3], bytes[2] * 256 + bytes[1]>>

\* n zero bytes
Zeros(n) == [i \in 1..n |-> 0]

\* _pad_string
pad_string(str, length) ==
    LET encoded == encode_utf8(str)
        result == SubSeq(encoded, 1,
                         IF Len(encoded) < length THEN Len(encoded) ELSE length)
    IN  result \o Zeros(length - Len(result))

\* the bytes of a code buffer of words
RECURSIVE code_bytes_from(_, _, _)
code_bytes_from(c, lo, hi) ==
    IF lo > hi THEN << >>
    ELSE IF lo = hi THEN pack_I(c[lo])
    ELSE LET mid == (lo + hi) \div 2
         IN  code_bytes_from(c, lo, mid) \o code_bytes_from(c, mid + 1, hi)

code_bytes(c) == code_bytes_from(c, 1, Len(c))

(***************************************************************************)
(* The output file: a sequence of chunks, each the bytes written at a file *)
(* offset followed by a run of zero bytes                                  *)
(***************************************************************************)
\* len(binary)
BinLen(b) ==
    IF Len(b) = 0 THEN 0
    ELSE b[Len(b)].at + Len(b[Len(b)].bytes) + b[Len(b)].zeros

\* binary.extend(bytes)
bin_extend(b, bytes) ==
    IF Len(b) > 0 /\ b[Len(b)].zeros = 0
    THEN [b EXCEPT ![Len(b)].bytes = @ \o bytes]
    ELSE Append(b, [at |-> BinLen(b), bytes |-> bytes, zeros |-> 0])

\* a variant that appends no padding at all
bin_pad_none(b, n) == b

\* while len(binary) < n: binary.append(0)
bin_pad(b, n) ==
    IF BinLen(b) >= n THEN b
    ELSE IF Len(b) = 0 THEN << [at |-> 0, bytes |-> << >>, zeros |-> n] >>
    ELSE [b EXCEPT ![Len(b)].zeros = @ + (n - BinLen(b))]

\* binary[off]
ByteAt(b, off) ==
    LET hit == { k \in DOMAIN b :
                   b[k].at <= off /\ off < b[k].at + Len(b[k].bytes) }
    IN  IF hit = {} THEN 0
        ELSE LET k == CHOOSE j \in hit : TRUE
             IN  b[k].bytes[off - b[k].at + 1]

\* struct.unpack('<I', binary[off:off+4])[0]
U32At(b, off) ==
    unpack_I(<<ByteAt(b, off), ByteAt(b, off + 1),
               ByteAt(b, off + 2), ByteAt(b, off + 3)>>)

\* struct.unpack('<Q', binary[off:off+8])[0], its low 48 bits
U64At(b, off) ==
    Bind(U32At(b, off), LAMBDA lo :
    Bind(U32At(b, off + 4), LAMBDA hi :
    <<hi[2], lo[1], lo[2]>>))

(***************************************************************************)
(* _write_macho                                                            *)
(***************************************************************************)
\* while len(self.code) % 16 != 0: self.code.append(0)
pad_code(c) == c \o [i \in 1..((4 - (Len(c) % 4)) % 4) |-> Hex(0, 0)]

\* the sizes and the layout computed from the padded buffers
macho_layout(s) ==
    LET sizes == macho.cmdSizes
        page_size == macho.pageSize
        text_start == macho.textStart
        code_file_offset == page_size
        code_size == CodeLen(s)
        data_file_offset == code_file_offset + ((code_size + 15) \div 16) * 16
        text_end_offset == data_file_offset + Len(s.data)
        text_file_size ==
            ((text_end_offset + page_size - 1) \div page_size) * page_size
        linkedit_file_off == text_file_size
    IN  [ncmds |-> 9,
         sizeofcmds |->
             sizes.segment + (sizes.segment + 2 * sizes.section)
               + sizes.segment + sizes.dylinker + sizes.buildVersion
               + sizes.symtab + sizes.chainedFixups + sizes.exportTrie
               + sizes.main,
         page_size |-> page_size,
         text_start |-> text_start,
         text_file_off |-> 0,
         code_file_offset |-> code_file_offset,
         code_vm_addr |-> AddX(text_start, code_file_offset),
         code_size |-> code_size,
         data_file_offset |-> data_file_offset,
         data_vm_addr |-> AddX(text_start, data_file_offset),
         text_end_offset |-> text_end_offset,
         text_file_size |-> text_file_size,
         text_vm_size |-> text_file_size,
         linkedit_file_off |-> linkedit_file_off,
         linkedit_file_size |-> page_size,
         linkedit_vm_addr |-> AddX(text_start, linkedit_file_off),
         linkedit_vm_size |-> page_size]

\* a variant whose mask leaves out bit 26: it takes a bl for an ADRP
is_adrp_inst_wide(w) == And32(w, Hex(\h9B00, 0)) = Hex(\h9000, 0)

\* (inst & 0x9F000000) == 0x90000000
is_adrp_inst(w) == And32(w, Hex(\h9F00, 0)) = Hex(\h9000, 0)

\* one iteration of the fixup loop, at i = 4 * (k - 1): an ADRP is given the
\* page delta from its own page to the data's page, and the ADD after it
\* the data's in-page offset added to the offset it carries
fixup_at(c, lay, k) ==
    LET w == c[k]
    IN  IF is_adrp_inst(w)
        THEN LET pc_addr == AddX(lay.code_vm_addr, 4 * (k - 1))
                 pc_page == PageOf(pc_addr)
                 target_page == PageOf(lay.data_vm_addr)
                 page_delta == Diff64(target_page, pc_page)
                 immhi == (page_delta \div 16384) % 524288
                 immlo == (page_delta \div 4096) % 4
             IN
             Bind(Bits(w, 0, 5), LAMBDA rd :
             Bind(Or32(Or32(Or32(Hex(\h9000, 0),
                                 Shl32(ToWord(immlo), 29)),
                            Shl32(ToWord(immhi), 5)),
                       ToWord(rd)), LAMBDA new_inst :
             LET add_inst == c[k + 1]
                 c1 == [c EXCEPT ![k] = new_inst]
             IN
             IF And32(add_inst, Hex(\hFF80, 0)) = Hex(\h9100, 0)
             THEN LET data_page_offset == PageOffset(lay.data_vm_addr)
                  IN
                  Bind(Bits(add_inst, 10, 12), LAMBDA existing_off :
                  LET new_off == (data_page_offset + existing_off) % 4096
                  IN
                  Bind(Or32(And32(add_inst, Hex(\hFFC0, \h03FF)),
                            Shl32(ToWord(new_off), 10)), LAMBDA new_add_inst :
                  [c1 EXCEPT ![k + 1] = new_add_inst]))
             ELSE c1))
        ELSE c

\* F applied to the buffer c once c has been evaluated
ThenCode(c, F(_)) == IF Len(c) >= 0 THEN F(c) ELSE c

\* the iterations for the words lo..hi, in order
RECURSIVE fixup_range(_, _, _, _)
fixup_range(c, lay, lo, hi) ==
    IF lo > hi THEN c
    ELSE IF lo = hi THEN fixup_at(c, lay, lo)
    ELSE LET mid == (lo + hi) \div 2
         IN  ThenCode(fixup_range(c, lay, lo, mid),
                      LAMBDA d : fixup_range(d, lay, mid + 1, hi))

\* a variant whose bound counts words where i counts bytes: the scan stops
\* a quarter of the way through the buffer
fixup_adrp_add_words(c, lay) == fixup_range(c, lay, 1, Len(c) \div 4 - 2)

\* i = 0; while i < len(self.code) - 8: ...; i += 4
fixup_adrp_add(c, lay) == fixup_range(c, lay, 1, Len(c) - 2)

macho_header(lay) ==
    pack_I(macho.magic) \o pack_I(macho.cputype) \o pack_I(macho.cpusubtype)
      \o pack_I(macho.filetype) \o pack_I(ToWord(lay.ncmds))
      \o pack_I(ToWord(lay.sizeofcmds)) \o pack_I(macho.flags)
      \o pack_I(ToWord(0))

lc_pagezero(lay) ==
    pack_I(macho.loadCommands.LC_SEGMENT_64)
      \o pack_I(ToWord(macho.cmdSizes.segment))
      \o pad_string("__PAGEZERO", 16)
      \o pack_Q(Int64(0)) \o pack_Q(lay.text_start)
      \o pack_Q(Int64(0)) \o pack_Q(Int64(0))
      \o pack_I(ToWord(0)) \o pack_I(ToWord(0))
      \o pack_I(ToWord(0)) \o pack_I(ToWord(0))

\* LC_SEGMENT_64 __TEXT with its sections __text and __cstring
lc_text(lay, data_len) ==
    Bind(BitOr(macho.vmProt.read, macho.vmProt.execute), LAMBDA prot :
    pack_I(macho.loadCommands.LC_SEGMENT_64)
      \o pack_I(ToWord(macho.cmdSizes.segment + 2 * macho.cmdSizes.section))
      \o pad_string("__TEXT", 16)
      \o pack_Q(lay.text_start) \o pack_Q(Int64(lay.text_vm_size))
      \o pack_Q(Int64(lay.text_file_off)) \o pack_Q(Int64(lay.text_file_size))
      \o pack_I(ToWord(prot)) \o pack_I(ToWord(prot))
      \o pack_I(ToWord(2)) \o pack_I(ToWord(0))
      \o pad_string("__text", 16) \o pad_string("__TEXT", 16)
      \o pack_Q(lay.code_vm_addr) \o pack_Q(Int64(lay.code_size))
      \o pack_I(ToWord(lay.code_file_offset)) \o pack_I(ToWord(4))
      \o pack_I(ToWord(0)) \o pack_I(ToWord(0))
      \o pack_I(macho.sectionTypes.code)
      \o pack_I(ToWord(0)) \o pack_I(ToWord(0)) \o pack_I(ToWord(0))
      \o pad_string("__cstring", 16) \o pad_string("__TEXT", 16)
      \o pack_Q(lay.data_vm_addr) \o pack_Q(Int64(data_len))
      \o pack_I(ToWord(lay.data_file_offset)) \o pack_I(ToWord(0))
      \o pack_I(ToWord(0)) \o pack_I(ToWord(0))
      \o pack_I(macho.sectionTypes.cstring)
      \o pack_I(ToWord(0)) \o pack_I(ToWord(0)) \o pack_I(ToWord(0)))

lc_linkedit(lay) ==
    pack_I(macho.loadCommands.LC_SEGMENT_64)
      \o pack_I(ToWord(macho.cmdSizes.segment))
      \o pad_string("__LINKEDIT", 16)
      \o pack_Q(lay.linkedit_vm_addr) \o pack_Q(Int64(lay.linkedit_vm_size))
      \o pack_Q(Int64(lay.linkedit_file_off))
      \o pack_Q(Int64(lay.linkedit_file_size))
      \o pack_I(ToWord(macho.vmProt.read)) \o pack_I(ToWord(macho.vmProt.read))
      \o pack_I(ToWord(0)) \o pack_I(ToWord(0))

\* LC_LOAD_DYLINKER, LC_BUILD_VERSION, LC_SYMTAB, LC_DYLD_CHAINED_FIXUPS and
\* LC_DYLD_EXPORTS_TRIE
lc_dyld(lay) ==
    LET chained_fixups_offset == lay.linkedit_file_off
        chained_fixups_size == 48
        export_trie_offset == chained_fixups_offset + chained_fixups_size
        export_trie_size == 8
    IN  pack_I(macho.loadCommands.LC_LOAD_DYLINKER)
          \o pack_I(ToWord(macho.cmdSizes.dylinker))
          \o pack_I(ToWord(12)) \o pad_string(macho.dylinkerPath, 32)
          \o pack_I(macho.loadCommands.LC_BUILD_VERSION)
          \o pack_I(ToWord(macho.cmdSizes.buildVersion))
          \o pack_I(ToWord(1)) \o pack_I(macho.minOS) \o pack_I(macho.sdk)
          \o pack_I(ToWord(0))
          \o pack_I(macho.loadCommands.LC_SYMTAB)
          \o pack_I(ToWord(macho.cmdSizes.symtab))
          \o pack_I(ToWord(0)) \o pack_I(ToWord(0))
          \o pack_I(ToWord(0)) \o pack_I(ToWord(0))
          \o pack_I(macho.loadCommands.LC_DYLD_CHAINED_FIXUPS)
          \o pack_I(ToWord(macho.cmdSizes.chainedFixups))
          \o pack_I(ToWord(chained_fixups_offset))
          \o pack_I(ToWord(chained_fixups_size))
          \o pack_I(macho.loadCommands.LC_DYLD_EXPORTS_TRIE)
          \o pack_I(ToWord(macho.cmdSizes.exportTrie))
          \o pack_I(ToWord(export_trie_offset))
          \o pack_I(ToWord(export_trie_size))

\* LC_MAIN with entryoff = code_file_offset, main_offset left out
lc_main_code_start(lay, main_off) ==
    pack_I(macho.loadCommands.LC_MAIN) \o pack_I(ToWord(macho.cmdSizes.main))
      \o pack_Q(Int64(lay.code_file_offset)) \o pack_Q(Int64(0))

\* LC_MAIN: entryoff = code_file_offset + main_offset, stacksize 0
lc_main(lay, main_off) ==
    pack_I(macho.loadCommands.LC_MAIN) \o pack_I(ToWord(macho.cmdSizes.main))
      \o pack_Q(Int64(lay.code_file_offset + main_off)) \o pack_Q(Int64(0))

\* the chained-fixups header and dyld_chained_starts_in_image of __LINKEDIT
linkedit_fixups ==
    pack_I(ToWord(0)) \o pack_I(ToWord(28)) \o pack_I(ToWord(44))
      \o pack_I(ToWord(44)) \o pack_I(ToWord(0)) \o pack_I(ToWord(1))
      \o pack_I(ToWord(0)) \o pack_I(ToWord(3)) \o pack_I(ToWord(0))
      \o pack_I(ToWord(0)) \o pack_I(ToWord(0))

\* _write_macho(path, main_offset): the buffers padded and fixed up in
\* place, the layout, and the bytes written to the file
write_macho(s, main_off) ==
    Then([s EXCEPT !.code = pad_code(@), !.data = PadTo(@, 16)], LAMBDA s1 :
    Bind(macho_layout(s1), LAMBDA lay :
    Then([s1 EXCEPT !.code = fixup_adrp_add(@, lay)], LAMBDA s2 :
    Bind(bin_extend(<< >>,
             macho_header(lay) \o lc_pagezero(lay)
               \o lc_text(lay, Len(s2.data)) \o lc_linkedit(lay)
               \o lc_dyld(lay) \o lc_main(lay, main_off)), LAMBDA b1 :
    Bind(bin_extend(bin_pad(b1, lay.code_file_offset), code_bytes(s2.code)), LAMBDA b2 :
    Bind(bin_extend(bin_pad(b2, lay.data_file_offset), s2.data), LAMBDA b3 :
    Bind(bin_extend(bin_pad(b3, lay.text_file_size), linkedit_fixups), LAMBDA b4 :
    Bind(bin_extend(bin_pad(b4, lay.text_file_size + 48), <<0, 0>>), LAMBDA b5 :
    Bind(bin_pad(b5, lay.text_file_size + 48 + 8), LAMBDA b6 :
    [s |-> [s2 EXCEPT !.ret = None],
     layout |-> lay,
     binary |-> bin_pad(b6, lay.text_file_size + lay.linkedit_file_size)])))))))))

\* compile(program, output_path): code generation, then _write_macho
compile(s, statements) ==
    Then(compile_code(s, statements), LAMBDA s1 : write_macho(s1, s1.ret))

(***************************************************************************)
(* States                                                                  *)
(***************************************************************************)
\* the generator instance is s
IsCompiler(s) ==
    /\ code = s.code
    /\ data = s.data
    /\ variables = s.variables
    /\ functions = s.functions
    /\ label_offsets = s.label_offsets
    /\ pending_branches = s.pending_branches
    /\ string_offsets = s.string_offsets
    /\ stack_offset = s.stack_offset
    /\ current_func = s.current_func
    /\ print_int_offset = s.print_int_offset
    /\ print_float_offset = s.print_float_offset
    /\ enums = s.enums
    /\ enum_var_types = s.enum_var_types
    /\ arrays = s.arrays
    /\ tuples = s.tuples
    /\ dicts = s.dicts
    /\ float_vars = s.float_vars
    /\ ret = s.ret

\* nothing compiled, nothing written, nothing running
NoOutput ==
    /\ main_offset = 0
    /\ layout = None
    /\ binary = << >>
    /\ cpu = None

out_vars == <<main_offset, layout, binary, cpu>>

(***************************************************************************)
(* SpecBranch: the label table and the pending-branch list, driven         *)
(* method by method as the generator drives them                           *)
(***************************************************************************)
MaxCodeWords == 3

MaxBranches == 2

\* a synthetic label, and the label a return outside any function branches
\* to (f'_{self.current_func}_ret' with current_func None), which no code
\* defines
DefinedLabels == {"_L0"}

Labels == DefinedLabels \cup {"_None_ret"}

InitBranch ==
    /\ IsCompiler(NewCompiler)
    /\ op = <<"__init__">>
    /\ pc = "gen"
    /\ NoOutput

Emit ==
    /\ pc = "gen"
    /\ Len(code) < MaxCodeWords
    /\ Install(emit(Self, inst.moves.mov_w0_0))
    /\ UNCHANGED <<op, pc, out_vars>>

DefineLabel(label) ==
    /\ pc = "gen"
    /\ label \notin DOMAIN label_offsets
    /\ Install(define_label(Self, label))
    /\ UNCHANGED <<op, pc, out_vars>>

AddBranch(label, type) ==
    /\ pc = "gen"
    /\ Len(code) < MaxCodeWords
    /\ Len(pending_branches) < MaxBranches
    /\ Install(add_branch(Self, label, type))
    /\ UNCHANGED <<op, pc, out_vars>>

ResolveBranches ==
    /\ pc = "gen"
    /\ Install(resolve_branches(Self))
    /\ pc' = "resolved"
    /\ UNCHANGED <<op, out_vars>>

NextBranch ==
    \/ Emit
    \/ \E label \in DefinedLabels : DefineLabel(label)
    \/ \E label \in Labels, type \in BranchType : AddBranch(label, type)
    \/ ResolveBranches

SpecBranch == InitBranch /\ [][NextBranch]_vars

\* the target a resolved branch word at byte offset `site` jumps to
BranchTarget(w, type, site) ==
    IF type \in {"b", "bl"}
    THEN site + 4 * SignExtend(Bits(w, 0, 26), 26)
    ELSE site + 4 * SignExtend(Bits(w, 5, 19), 19)

\* C1: after _resolve_branches, every pending branch whose label is in the
\* label table decodes (sign-extended immediate times 4, plus the site's
\* offset) to the label's recorded offset, forward or backward.
C1_RoundTrip ==
    pc = "resolved" =>
        \A i \in 1..Len(pending_branches) :
            LET b == pending_branches[i]
            IN  b.label \in DOMAIN label_offsets =>
                    BranchTarget(WordAt(code, b.offset), b.type, b.offset)
                        = label_offsets[b.label]

\* a conditional branch resolved backward and a call resolved forward
C1_Witness ==
    /\ pc = "resolved"
    /\ \E i, j \in 1..Len(pending_branches) :
           LET b == pending_branches[i]
               f == pending_branches[j]
           IN  /\ b.label \in DOMAIN label_offsets
               /\ f.label \in DOMAIN label_offsets
               /\ b.type = "bge" /\ label_offsets[b.label] < b.offset
               /\ f.type = "bl" /\ label_offsets[f.label] > f.offset

\* the pending branches whose label is in the label table
Resolvable ==
    { i \in 1..Len(pending_branches) :
          pending_branches[i].label \in DOMAIN label_offsets }

\* C12: _resolve_branches completes when a pending branch's label is absent
\* from the label table: the word at that branch's site stays the
\* placeholder 0x14000000, every branch whose label is present is given its
\* resolved word, as it would be without the unresolved entries, and no
\* other word, nor the label table or the pending list, changes.
C12_AbsentLabelSkipped ==
    [][(pc = "gen" /\ pc' = "resolved") =>
          /\ Len(code') = Len(code)
          /\ \A k \in 1..Len(code) :
                 LET at == { i \in 1..Len(pending_branches) :
                                 pending_branches[i].offset = 4 * (k - 1) }
                 IN  IF at \cap Resolvable # {}
                     THEN \A i \in at :
                              LET b == pending_branches[i]
                              IN  code'[k] =
                                      branch_word(b.type,
                                          (label_offsets[b.label] - b.offset)
                                              \div 4)
                     ELSE /\ code'[k] = code[k]
                          /\ at # {} => code'[k] = Hex(\h1400, 0)
          /\ label_offsets' = label_offsets
          /\ pending_branches' = pending_branches]_vars

\* resolution has run over a list holding a branch to an absent label,
\* still the placeholder, before a branch that was resolved
C12_Witness ==
    /\ pc = "resolved"
    /\ Len(pending_branches) = 2
    /\ pending_branches[1].label \notin DOMAIN label_offsets
    /\ pending_branches[2].label \in DOMAIN label_offsets
    /\ pending_branches[2].type = "blt"
    /\ WordAt(code, pending_branches[1].offset) = Hex(\h1400, 0)
    /\ WordAt(code, pending_branches[2].offset) # Hex(\h1400, 0)

(***************************************************************************)
(* SpecPool: the data buffer under any sequence of _add_string and         *)
(* _add_double calls                                                       *)
(***************************************************************************)
MaxDataBytes == 40

Strings == {"x", "é", ", ", "abcdefgh"}

Doubles == {"10.0", "2.5"}

InitPool ==
    /\ IsCompiler(NewCompiler)
    /\ op = <<"__init__">>
    /\ pc = "gen"
    /\ NoOutput

AddString(str) ==
    /\ str \in DOMAIN string_offsets \/ Len(data) < MaxDataBytes
    /\ Install(add_string(Self, str))
    /\ op' = <<"_add_string", str>>
    /\ UNCHANGED <<pc, out_vars>>

AddDouble(value) ==
    /\ Len(data) < MaxDataBytes
    /\ Install(add_double(Self, value))
    /\ op' = <<"_add_double", value>>
    /\ UNCHANGED <<pc, out_vars>>

NextPool ==
    \/ \E str \in Strings : AddString(str)
    \/ \E value \in Doubles : AddDouble(value)

SpecPool == InitPool /\ [][NextPool]_vars

\* the bytes of data at [off, off + n)
DataAt(off, n) == SubSeq(data, off + 1, off + n)

\* the entry of string str: its UTF-8 bytes, a NUL, zero padding to 8 bytes
StringEntry(str) == PadTo(encode_utf8(str) \o <<0>>, 8)

\* C2: a call of _add_string with a string added before returns the offset
\* returned the first time and leaves the data buffer unchanged; a call with
\* a new string records the offset it returns; so the buffer holds one entry
\* per string (its bytes, a NUL, padding to 8), at the recorded offset, and
\* the entries of different strings do not overlap.
C2_Dedup ==
    [][\A str \in Strings :
          /\ (op' = <<"_add_string", str>> /\ str \in DOMAIN string_offsets)
                => /\ ret' = string_offsets[str]
                   /\ data' = data
                   /\ string_offsets' = string_offsets
          /\ (op' = <<"_add_string", str>> /\ str \notin DOMAIN string_offsets)
                => /\ str \in DOMAIN string_offsets'
                   /\ string_offsets'[str] = ret'
                   /\ data' = data \o StringEntry(str)
          /\ str \in DOMAIN string_offsets
                => /\ str \in DOMAIN string_offsets'
                   /\ string_offsets'[str] = string_offsets[str]
                   /\ SubSeq(data', string_offsets[str] + 1,
                             string_offsets[str] + Len(StringEntry(str)))
                        = StringEntry(str)
      ]_vars

\* _add_string("é") called again after other entries were appended behind
\* its two-byte entry
C2_Witness ==
    /\ op = <<"_add_string", "é">>
    /\ ret = string_offsets["é"]
    /\ DataAt(ret, 3) = <<195, 169, 0>>
    /\ ret + 8 < Len(data)

(***************************************************************************)
(* The machine: the ARM64 instructions the generator emits, executed one   *)
(* at a time.  A register holds a 64-bit value <<h, m, l>> (bits 32 to 47, *)
(* 16 to 31, 0 to 15); an instruction whose result needs bits 48 and up,   *)
(* or that the machine does not know, stops it with fault set.  Memory is  *)
(* byte-addressed: the written file is mapped at textStart, read-only, and *)
(* every other byte is memory the program has to write before reading it.  *)
(***************************************************************************)
\* the low 32 bits of a register
WordOf(x) == <<x[2], x[3]>>

\* a 32-bit result written to a w register (the upper half is zeroed)
FromWord(w) == <<0, w[1], w[2]>>

\* a + b and a - b modulo 2^32
Add32(a, b) ==
    LET lo == a[2] + b[2]
    IN  <<(a[1] + b[1] + (lo \div 65536)) % 65536, lo % 65536>>

Sub32(a, b) ==
    LET lo == a[2] - b[2]
    IN  <<(a[1] - b[1] + (lo \div 65536)) % 65536, lo % 65536>>

\* a >= b, both unsigned
GeU32(a, b) == a[1] > b[1] \/ (a[1] = b[1] /\ a[2] >= b[2])

\* the 32-bit product of two 16-bit limbs
MulLimb(a, b) ==
    LET p0 == (a % 256) * b
        p1 == (a \div 256) * b
        t == (p1 % 256) * 256 + p0
    IN  <<((p1 \div 256) + (t \div 65536)) % 65536, t % 65536>>

\* a * b modulo 2^32
Mul32(a, b) ==
    LET low == MulLimb(a[2], b[2])
    IN  <<(low[1] + MulLimb(a[1], b[2])[2] + MulLimb(a[2], b[1])[2]) % 65536,
          low[2]>>

\* the unsigned quotient a / b is computed for operands below 2^31 and for
\* divisors below 2^15
UDivKnown(a, b) == (a[1] < 32768 /\ b[1] < 32768) \/ (b[1] = 0 /\ b[2] < 32768)

UDiv32(a, b) ==
    IF b = <<0, 0>> THEN <<0, 0>>
    ELSE IF a[1] < 32768 /\ b[1] < 32768
    THEN ToWord((a[1] * 65536 + a[2]) \div (b[1] * 65536 + b[2]))
    ELSE LET d == b[2]
         IN  <<a[1] \div d, (((a[1] % d) * 65536) + a[2]) \div d>>

\* the signed quotient, rounded towards zero
SDiv32(a, b) ==
    LET sa == Signed32(a)
        sb == Signed32(b)
        abs(n) == IF n < 0 THEN -n ELSE n
        q == abs(sa) \div abs(sb)
    IN  IF sb = 0 THEN <<0, 0>>
        ELSE ToWord(IF (sa < 0) = (sb < 0) THEN q ELSE -q)

\* a + b and a - b on 64-bit values; h is left out of range when the result
\* does not fit 48 bits
Add64(a, b) ==
    LET l == a[3] + b[3]
        m == a[2] + b[2] + (l \div 65536)
    IN  <<a[1] + b[1] + (m \div 65536), m % 65536, l % 65536>>

Sub64(a, b) ==
    LET l == a[3] - b[3]
        m == a[2] - b[2] + (l \div 65536)
    IN  <<a[1] - b[1] + (m \div 65536), m % 65536, l % 65536>>

Fits(x) == x[1] >= 0 /\ x[1] < 65536

\* a >= b on 64-bit values
GeU64(a, b) ==
    \/ a[1] > b[1]
    \/ a[1] = b[1] /\ (a[2] > b[2] \/ (a[2] = b[2] /\ a[3] >= b[3]))

NewCpu(entry) ==
    [ip |-> entry,
     x |-> [r \in 0..30 |-> <<0, 0, 0>>],
     sp |-> <<1, \h6FE0, 0>>,
     nzcv |-> [n |-> FALSE, z |-> FALSE, c |-> FALSE, v |-> FALSE],
     mem |-> EmptyDict,
     out |-> << >>,
     steps |-> 0,
     halted |-> FALSE,
     fault |-> FALSE]

Fault(m) == [m EXCEPT !.halted = TRUE, !.fault = TRUE]

Advance(m) == [m EXCEPT !.ip = AddX(@, 4)]

\* register r read and written where 31 names the zero register
RegZR(m, r) == IF r = 31 THEN <<0, 0, 0>> ELSE m.x[r]

SetZR(m, r, v) == IF r = 31 THEN m ELSE [m EXCEPT !.x[r] = v]

\* register r read and written where 31 names the stack pointer
RegSP(m, r) == IF r = 31 THEN m.sp ELSE m.x[r]

SetSP(m, r, v) == IF r = 31 THEN [m EXCEPT !.sp = v] ELSE [m EXCEPT !.x[r] = v]

\* an address the model keeps memory for: textStart's 4 GB window
Mapped(a) == a[1] = macho.textStart[1] /\ a[2] < 32767

\* the offset of an address from textStart
Off(a) == a[2] * 65536 + a[3]

\* the byte at address a, -1 where nothing was loaded or written
LoadByte(m, a) ==
    IF ~Mapped(a) THEN -1
    ELSE IF Off(a) \in DOMAIN m.mem THEN m.mem[Off(a)]
    ELSE IF Off(a) < BinLen(binary) THEN ByteAt(binary, Off(a))
    ELSE -1

LoadBytes(m, a, n) == [i \in 1..n |-> LoadByte(m, AddX(a, i - 1))]

Readable(m, a, n) == \A i \in 1..n : LoadByte(m, AddX(a, i - 1)) >= 0

\* the mapped file is read-only
Writable(a, n) == Mapped(a) /\ Off(a) >= BinLen(binary)

StoreBytes(m, a, bytes) ==
    LET first == Off(a)
        last == first + Len(bytes) - 1
    IN  [m EXCEPT !.mem =
            [o \in (DOMAIN m.mem) \cup (first..last) |->
                IF first <= o /\ o <= last THEN bytes[o - first + 1]
                ELSE m.mem[o]]]

\* MOVN / MOVZ / MOVK: bits 28..23 = 100101
IsMoveWide(w) == Bits(w, 23, 6) = 37

exec_move_wide(m, w) ==
    LET sf == Bits(w, 31, 1)
        opc == Bits(w, 29, 2)
        hw == Bits(w, 21, 2)
        imm == Bits(w, 5, 16)
        rd == Bits(w, 0, 5)
        old == RegZR(m, rd)
        placed == CASE hw = 0 -> <<0, 0, imm>>
                    [] hw = 1 -> <<0, imm, 0>>
                    [] OTHER -> <<imm, 0, 0>>
        val == CASE opc = 2 -> placed
                 [] opc = 0 -> <<0, 65535 - placed[2], 65535 - placed[3]>>
                 [] OTHER ->
                      <<IF hw = 2 THEN imm ELSE IF sf = 0 THEN 0 ELSE old[1],
                        IF hw = 1 THEN imm ELSE old[2],
                        IF hw = 0 THEN imm ELSE old[3]>>
    IN  IF hw = 3 \/ (sf = 0 /\ hw = 2) \/ opc = 1 \/ (sf = 1 /\ opc = 0)
        THEN Fault(m)
        ELSE Advance(SetZR(m, rd, val))

\* the flags of a 32-bit a - b with result r
SubFlags(a, b, r) ==
    [n |-> r[1] >= 32768,
     z |-> r = <<0, 0>>,
     c |-> GeU32(a, b),
     v |-> ((a[1] >= 32768) # (b[1] >= 32768))
             /\ ((r[1] >= 32768) # (a[1] >= 32768))]

\* ADD / SUB / SUBS (immediate): bits 28..23 = 100010
IsAddSubImm(w) == Bits(w, 23, 6) = 34

exec_addsub_imm(m, w) ==
    LET sf == Bits(w, 31, 1)
        sub == Bits(w, 30, 1) = 1
        setflags == Bits(w, 29, 1) = 1
        imm == Bits(w, 10, 12) * (IF Bits(w, 22, 1) = 1 THEN 4096 ELSE 1)
        rn == Bits(w, 5, 5)
        rd == Bits(w, 0, 5)
        a == RegSP(m, rn)
    IN  IF sf = 1
        THEN LET r == AddX(a, IF sub THEN -imm ELSE imm)
             IN  IF setflags \/ ~Fits(r) THEN Fault(m)
                 ELSE Advance(SetSP(m, rd, r))
        ELSE LET b == ToWord(imm)
                 r == IF sub THEN Sub32(WordOf(a), b) ELSE Add32(WordOf(a), b)
             IN  IF ~setflags THEN Advance(SetSP(m, rd, FromWord(r)))
                 ELSE IF ~sub THEN Fault(m)
                 ELSE Advance(SetZR([m EXCEPT !.nzcv = SubFlags(WordOf(a), b, r)],
                                    rd, FromWord(r)))

\* ADD / SUB / SUBS (shifted register, shift amount 0): bits 28..24 = 01011,
\* bit 21 = 0
IsAddSubReg(w) == Bits(w, 24, 5) = 11 /\ Bits(w, 21, 1) = 0

exec_addsub_reg(m, w) ==
    LET sf == Bits(w, 31, 1)
        sub == Bits(w, 30, 1) = 1
        setflags == Bits(w, 29, 1) = 1
        rm == Bits(w, 16, 5)
        rn == Bits(w, 5, 5)
        rd == Bits(w, 0, 5)
        a == RegZR(m, rn)
        b == RegZR(m, rm)
    IN  IF Bits(w, 10, 6) # 0 \/ (setflags /\ ~sub) THEN Fault(m)
        ELSE IF sf = 1
        THEN LET r == IF sub THEN Sub64(a, b) ELSE Add64(a, b)
             IN  IF setflags
                 THEN Advance(SetZR(
                          [m EXCEPT !.nzcv = [n |-> ~GeU64(a, b), z |-> a = b,
                                              c |-> GeU64(a, b), v |-> FALSE]],
                          rd, <<r[1] % 65536, r[2], r[3]>>))
                 ELSE IF ~Fits(r) THEN Fault(m)
                 ELSE Advance(SetZR(m, rd, r))
        ELSE LET r == IF sub THEN Sub32(WordOf(a), WordOf(b))
                      ELSE Add32(WordOf(a), WordOf(b))
                 m1 == IF setflags
                       THEN [m EXCEPT !.nzcv = SubFlags(WordOf(a), WordOf(b), r)]
                       ELSE m
             IN  Advance(SetZR(m1, rd, FromWord(r)))

\* ORR (shifted register, shift amount 0), the register move: bits 30..24 =
\* 0101010, bit 21 = 0
IsOrrReg(w) == Bits(w, 24, 7) = 42 /\ Bits(w, 21, 1) = 0

exec_orr_reg(m, w) ==
    LET sf == Bits(w, 31, 1)
        a == RegZR(m, Bits(w, 5, 5))
        b == RegZR(m, Bits(w, 16, 5))
        r == <<IF sf = 1 THEN BitOr(a[1], b[1]) ELSE 0,
               BitOr(a[2], b[2]), BitOr(a[3], b[3])>>
    IN  IF Bits(w, 10, 6) # 0 THEN Fault(m)
        ELSE Advance(SetZR(m, Bits(w, 0, 5), r))

\* UDIV / SDIV (32-bit): bits 31..21 = 00011010110
IsDiv(w) == Bits(w, 21, 11) = 214

exec_div(m, w) ==
    LET a == WordOf(RegZR(m, Bits(w, 5, 5)))
        b == WordOf(RegZR(m, Bits(w, 16, 5)))
        rd == Bits(w, 0, 5)
        opcode == Bits(w, 10, 6)
    IN  IF opcode = 2 /\ UDivKnown(a, b)
        THEN Advance(SetZR(m, rd, FromWord(UDiv32(a, b))))
        ELSE IF opcode = 3 /\ a # <<32768, 0>>
        THEN Advance(SetZR(m, rd, FromWord(SDiv32(a, b))))
        ELSE Fault(m)

\* MADD / MSUB (32-bit): bits 31..21 = 00011011000
IsMulAdd(w) == Bits(w, 21, 11) = 216

exec_mul_add(m, w) ==
    LET a == WordOf(RegZR(m, Bits(w, 5, 5)))
        b == WordOf(RegZR(m, Bits(w, 16, 5)))
        acc == WordOf(RegZR(m, Bits(w, 10, 5)))
        p == Mul32(a, b)
        r == IF Bits(w, 15, 1) = 1 THEN Sub32(acc, p) ELSE Add32(acc, p)
    IN  Advance(SetZR(m, Bits(w, 0, 5), FromWord(r)))

\* B / BL: bits 30..26 = 00101
IsBranch(w) == Bits(w, 26, 5) = 5

exec_branch(m, w) ==
    LET target == AddX(m.ip, 4 * SignExtend(Bits(w, 0, 26), 26))
        m1 == IF Bits(w, 31, 1) = 1
              THEN [m EXCEPT !.x[30] = AddX(m.ip, 4)]
              ELSE m
    IN  [m1 EXCEPT !.ip = target]

\* the condition codes
CondHolds(f, cond) ==
    CASE cond = 0 -> f.z
      [] cond = 1 -> ~f.z
      [] cond = 2 -> f.c
      [] cond = 3 -> ~f.c
      [] cond = 4 -> f.n
      [] cond = 5 -> ~f.n
      [] cond = 6 -> f.v
      [] cond = 7 -> ~f.v
      [] cond = 8 -> f.c /\ ~f.z
      [] cond = 9 -> ~(f.c /\ ~f.z)
      [] cond = 10 -> f.n = f.v
      [] cond = 11 -> f.n # f.v
      [] cond = 12 -> ~f.z /\ f.n = f.v
      [] cond = 13 -> ~(~f.z /\ f.n = f.v)
      [] OTHER -> TRUE

\* CSINC (32-bit), of which CSET is the form with both sources the zero
\* register: bits 31..21 = 00011010100, bits 11..10 = 01
IsCsinc(w) == Bits(w, 21, 11) = 212 /\ Bits(w, 10, 2) = 1

exec_csinc(m, w) ==
    LET a == WordOf(RegZR(m, Bits(w, 5, 5)))
        b == WordOf(RegZR(m, Bits(w, 16, 5)))
        r == IF CondHolds(m.nzcv, Bits(w, 12, 4)) THEN a
             ELSE Add32(b, ToWord(1))
    IN  Advance(SetZR(m, Bits(w, 0, 5), FromWord(r)))

\* B.cond: bits 31..24 = 01010100, bit 4 = 0
IsBranchCond(w) == Bits(w, 24, 8) = 84 /\ Bits(w, 4, 1) = 0

exec_branch_cond(m, w) ==
    IF CondHolds(m.nzcv, Bits(w, 0, 4))
    THEN [m EXCEPT !.ip = AddX(@, 4 * SignExtend(Bits(w, 5, 19), 19))]
    ELSE Advance(m)

\* RET: 0xD65F0000 | (rn << 5)
IsRet(w) == w[1] = 54879 /\ w[2] % 32 = 0 /\ w[2] < 1024

exec_ret(m, w) == [m EXCEPT !.ip = RegZR(m, Bits(w, 5, 5))]

\* ADRP: bit 31 = 1, bits 28..24 = 10000
IsAdrp(w) == Bits(w, 31, 1) = 1 /\ Bits(w, 24, 5) = 16

\* the page delta an ADRP carries
AdrpImm(w) == SignExtend(Bits(w, 5, 19) * 4 + Bits(w, 29, 2), 21)

exec_adrp(m, w) ==
    LET imm == AdrpImm(w)
        r == AddX(PageOf(m.ip), imm * 4096)
    IN  IF imm >= 262144 \/ imm < -262144 \/ ~Fits(r) THEN Fault(m)
        ELSE Advance(SetZR(m, Bits(w, 0, 5), r))

\* the bytes of a register stored with size 2^size, and a register loaded
\* from such bytes
RegBytes(x, size) ==
    CASE size = 0 -> <<x[3] % 256>>
      [] size = 2 -> pack_I(WordOf(x))
      [] OTHER -> pack_Q(x)

BytesReg(bytes, size) ==
    CASE size = 0 -> <<0, 0, bytes[1]>>
      [] size = 2 -> FromWord(unpack_I(bytes))
      [] OTHER -> <<bytes[6] * 256 + bytes[5], bytes[4] * 256 + bytes[3],
                    bytes[2] * 256 + bytes[1]>>

\* one register stored to or loaded from address a
exec_access(m, load, size, rt, a) ==
    LET n == 2^size
    IN  IF size = 1 THEN Fault(m)
        ELSE IF load
        THEN IF Readable(m, a, n)
             THEN SetZR(m, rt, BytesReg(LoadBytes(m, a, n), size))
             ELSE Fault(m)
        ELSE IF Writable(a, n)
             THEN StoreBytes(m, a, RegBytes(RegZR(m, rt), size))
             ELSE Fault(m)

\* STUR / LDUR and the pre- and post-indexed STR / LDR / STRB / LDRB:
\* bits 29..27 = 111, bits 25..24 = 00, bit 21 = 0
IsLdStReg(w) == Bits(w, 27, 3) = 7 /\ Bits(w, 24, 2) = 0 /\ Bits(w, 21, 1) = 0

exec_ldst_reg(m, w) ==
    LET size == Bits(w, 30, 2)
        opc == Bits(w, 22, 2)
        imm9 == SignExtend(Bits(w, 12, 9), 9)
        mode == Bits(w, 10, 2)
        rn == Bits(w, 5, 5)
        rt == Bits(w, 0, 5)
        base == RegSP(m, rn)
        a == IF mode = 1 THEN base ELSE AddX(base, imm9)
        m1 == exec_access(m, opc = 1, size, rt, a)
    IN  IF Bits(w, 26, 1) = 1 \/ opc > 1 \/ mode = 2 THEN Fault(m)
        ELSE IF m1.fault THEN m1
        ELSE IF mode = 0 THEN Advance(m1)
        ELSE Advance(SetSP(m1, rn, AddX(base, imm9)))

\* STR / LDR / STRB / LDRB (unsigned offset): bits 29..27 = 111,
\* bits 25..24 = 01
IsLdStUImm(w) == Bits(w, 27, 3) = 7 /\ Bits(w, 24, 2) = 1

exec_ldst_uimm(m, w) ==
    LET size == Bits(w, 30, 2)
        opc == Bits(w, 22, 2)
        a == AddX(RegSP(m, Bits(w, 5, 5)), Bits(w, 10, 12) * 2^size)
        m1 == exec_access(m, opc = 1, size, Bits(w, 0, 5), a)
    IN  IF Bits(w, 26, 1) = 1 \/ opc > 1 THEN Fault(m)
        ELSE IF m1.fault THEN m1
        ELSE Advance(m1)

\* STP / LDP (64-bit): bits 31..26 = 101010, bit 25 = 0
IsLdStPair(w) == Bits(w, 26, 6) = 42 /\ Bits(w, 25, 1) = 0

exec_ldst_pair(m, w) ==
    LET mode == Bits(w, 23, 2)
        load == Bits(w, 22, 1) = 1
        imm7 == 8 * SignExtend(Bits(w, 15, 7), 7)
        rt2 == Bits(w, 10, 5)
        rn == Bits(w, 5, 5)
        rt == Bits(w, 0, 5)
        base == RegSP(m, rn)
        a == IF mode = 1 THEN base ELSE AddX(base, imm7)
        m1 == exec_access(m, load, 3, rt, a)
        m2 == IF m1.fault THEN m1 ELSE exec_access(m1, load, 3, rt2, AddX(a, 8))
    IN  IF mode = 0 THEN Fault(m)
        ELSE IF m2.fault THEN m2
        ELSE IF mode = 2 THEN Advance(m2)
        ELSE Advance(SetSP(m2, rn, AddX(base, imm7)))

\* SVC: bits 31..21 = 11010100000, bits 4..0 = 00001
IsSvc(w) == Bits(w, 21, 11) = 1696 /\ Bits(w, 0, 5) = 1

\* the system call x16 names: write(x0, x1, x2) appends the bytes to the
\* output when x0 is 1, exit(x0) stops the machine
exec_svc(m, w) ==
    LET call == m.x[16]
        len == m.x[2]
    IN  IF call = <<0, 512, 1>> THEN [m EXCEPT !.halted = TRUE]
        ELSE IF call = <<0, 512, 4>>
        THEN IF m.x[0] = <<0, 0, 1>> /\ len[1] = 0 /\ len[2] = 0
                  /\ Readable(m, m.x[1], len[3])
             THEN Advance([m EXCEPT
                             !.out = @ \o LoadBytes(m, m.x[1], len[3]),
                             !.x[0] = len])
             ELSE Fault(m)
        ELSE Fault(m)

\* one instruction
exec(m, w) ==
    IF IsMoveWide(w) THEN exec_move_wide(m, w)
    ELSE IF IsLdStReg(w) THEN exec_ldst_reg(m, w)
    ELSE IF IsLdStUImm(w) THEN exec_ldst_uimm(m, w)
    ELSE IF IsLdStPair(w) THEN exec_ldst_pair(m, w)
    ELSE IF IsAddSubImm(w) THEN exec_addsub_imm(m, w)
    ELSE IF IsAddSubReg(w) THEN exec_addsub_reg(m, w)
    ELSE IF IsOrrReg(w) THEN exec_orr_reg(m, w)
    ELSE IF IsCsinc(w) THEN exec_csinc(m, w)
    ELSE IF IsDiv(w) THEN exec_div(m, w)
    ELSE IF IsMulAdd(w) THEN exec_mul_add(m, w)
    ELSE IF IsBranch(w) THEN exec_branch(m, w)
    ELSE IF IsBranchCond(w) THEN exec_branch_cond(m, w)
    ELSE IF IsRet(w) THEN exec_ret(m, w)
    ELSE IF IsAdrp(w) THEN exec_adrp(m, w)
    ELSE IF IsSvc(w) THEN exec_svc(m, w)
    ELSE Fault(m)

\* the machine executes the word of the code buffer at its ip; running off
\* the end of the buffer stops it
StepBuffer ==
    /\ pc = "run"
    /\ ~cpu.halted
    /\ cpu' = IF Off(cpu.ip) >= 4 * Len(code)
              THEN [cpu EXCEPT !.halted = TRUE]
              ELSE exec(cpu, WordAt(code, Off(cpu.ip)))
    /\ UNCHANGED <<gen_vars, op, pc, main_offset, layout, binary>>

(***************************************************************************)
(* SpecMov: _emit_mov_imm on one value, and the emitted moves executed     *)
(***************************************************************************)
MinInt32 == -2147483647 - 1

MaxInt32 == 2147483647

\* how far around each boundary of the three encodings values are drawn
MovSpread == 2

MovValues ==
    {b + k : b \in {-65536, -32768, 0, 32768, 65536},
             k \in (-MovSpread)..MovSpread}
    \cup {MinInt32 + k : k \in 0..MovSpread}
    \cup {MaxInt32 - k : k \in 0..MovSpread}
    \cup {305419896, -305419896, 32767 * 65536, -32767 * 65536 + 65535}

MovRegs == {0, 1, 2}

InitMov ==
    /\ IsCompiler(NewCompiler)
    /\ op = <<"__init__">>
    /\ pc = "gen"
    /\ NoOutput

EmitMovImm(reg, value) ==
    /\ pc = "gen"
    /\ Install(emit_mov_imm(Self, reg, value))
    /\ op' = <<"_emit_mov_imm", reg, value>>
    /\ pc' = "run"
    /\ cpu' = NewCpu(<<0, 0, 0>>)
    /\ UNCHANGED <<main_offset, layout, binary>>

NextMov ==
    \/ \E reg \in MovRegs, value \in MovValues : EmitMovImm(reg, value)
    \/ StepBuffer

SpecMov == InitMov /\ [][NextMov]_vars

\* C3: once the moves _emit_mov_imm(reg, v) emitted have run, the 32-bit
\* register reg holds v, for every signed 32-bit v; one instruction was
\* emitted when v fits a 16-bit move (-65536 <= v < 65536), two otherwise.
C3_MovImm ==
    (pc = "run" /\ cpu.halted) =>
        LET reg == op[2]
            v == op[3]
        IN  /\ Signed32(WordOf(cpu.x[reg])) = v
            /\ cpu.x[reg][1] = 0
            /\ Len(code) = IF -65536 <= v /\ v < 65536 THEN 1 ELSE 2

\* the move-not path, the single move and the pair have each run
C3_Witness ==
    /\ pc = "run"
    /\ cpu.halted
    /\ op[3] \in {-32769, 65535, MinInt32}
    /\ Signed32(WordOf(cpu.x[op[2]])) = op[3]


(***************************************************************************)
(* compile, step by step: the statements of main generated one after       *)
(* another, as "for stmt in main_stmts: self._gen_stmt(stmt)" does, then   *)
(* the exit epilogue, the branch resolution and _write_macho; and the      *)
(* written file loaded and run                                             *)
(***************************************************************************)
\* compile is past main's prologue, with no user function; op holds the
\* statements of main generated so far (indices into the statement list)
InitMain ==
    /\ IsCompiler(compile_begin(NewCompiler, << >>))
    /\ main_offset = compile_begin(NewCompiler, << >>).ret
    /\ op = <<"compile", 0, << >> >>
    /\ pc = "main"
    /\ layout = None
    /\ binary = << >>
    /\ cpu = None

\* self._gen_stmt(stmt) for the next statement of main, statement i of stmts
GenStmtOf(stmts, max, i) ==
    /\ pc = "main"
    /\ Len(op[3]) < max
    /\ Install(gen_stmt(Self, stmts[i]))
    /\ op' = <<"_gen_stmt", i, Append(op[3], i)>>
    /\ UNCHANGED <<pc, out_vars>>

\* main has no further statement: the exit epilogue, _resolve_branches and
\* _write_macho(output_path, main_offset)
Finish ==
    /\ pc = "main"
    /\ LET r == Then(compile_end(Self),
                     LAMBDA s : write_macho(s, main_offset))
       IN  /\ Install(r.s)
           /\ layout' = r.layout
           /\ binary' = r.binary
    /\ pc' = "written"
    /\ UNCHANGED <<op, main_offset, cpu>>

\* the offset of the first load command cmd among the n at off, -1 if none
RECURSIVE find_command(_, _, _, _)
find_command(b, off, n, cmd) ==
    IF n = 0 THEN -1
    ELSE IF U32At(b, off) = cmd THEN off
    ELSE find_command(b, off + Signed32(U32At(b, off + 4)), n - 1, cmd)

\* the offset of the segment command named name among the n at off
RECURSIVE find_segment(_, _, _, _)
find_segment(b, off, n, name) ==
    IF n = 0 THEN -1
    ELSE IF U32At(b, off) = Hex(0, 25)
            /\ [i \in 1..16 |-> ByteAt(b, off + 7 + i)] = pad_string(name, 16)
    THEN off
    ELSE find_segment(b, off + Signed32(U32At(b, off + 4)), n - 1, name)

\* LC_MAIN's entryoff, as the file says it
EntryOffset(b) ==
    U64At(b, find_command(b, 32, Signed32(U32At(b, 16)), Hex(32768, 40)) + 8)

\* where the loader starts the program: the address the __TEXT segment
\* maps the file offset entryoff to
EntryAddress(b) ==
    LET text == find_segment(b, 32, Signed32(U32At(b, 16)), "__TEXT")
        vmaddr == U64At(b, text + 24)
        fileoff == U64At(b, text + 40)
    IN  Add64(vmaddr, Sub64(EntryOffset(b), fileoff))

\* the written file is executed
Launch ==
    /\ pc = "written"
    /\ cpu' = NewCpu(EntryAddress(binary))
    /\ pc' = "run"
    /\ UNCHANGED <<gen_vars, op, main_offset, layout, binary>>

\* how many instructions a run is followed for
MaxSteps == 1500

\* the machine executes the instruction at its ip, fetched from the mapped
\* file
Step ==
    /\ pc = "run"
    /\ ~cpu.halted
    /\ cpu.steps < MaxSteps
    /\ cpu' = [(IF Mapped(cpu.ip) /\ Off(cpu.ip) + 3 < BinLen(binary)
                THEN exec(cpu, U32At(binary, Off(cpu.ip)))
                ELSE Fault(cpu))
               EXCEPT !.steps = @ + 1]
    /\ UNCHANGED <<gen_vars, op, pc, main_offset, layout, binary>>

(***************************************************************************)
(* SpecRun: programs of scalar declarations, bounded loops, integer arrays *)
(* and prints, compiled, written and run                                   *)
(***************************************************************************)
\* how many statements main has at most
MaxRunStmts == 2

\* the statements main is made of
RunStmts ==
    << VarDecl("x", IntLit(5)),
       VarDecl("x", IntLit(-12)),
       VarDecl("x", IntLit(0)),
       PrintStmt(VarRef("x")),
       LoopStmt("i", IntLit(0), IntLit(3), << PrintStmt(VarRef("i")) >>),
       LoopStmt("i", IntLit(2), IntLit(2), << PrintStmt(VarRef("i")) >>),
       LoopStmt("i", IntLit(0), VarRef("x"),
                << PrintStmt(VarRef("i")), VarDecl("x", IntLit(1)) >>),
       VarDecl("a", ArrayLiteral(<< IntLit(1), IntLit(2), IntLit(3) >>)),
       VarDecl("a", ArrayLiteral(<< IntLit(40) >>)),
       PrintStmt(VarRef("a")) >>

GenRunStmt(i) == GenStmtOf(RunStmts, MaxRunStmts, i)

NextRun ==
    \/ \E i \in DOMAIN RunStmts : GenRunStmt(i)
    \/ Finish
    \/ Launch
    \/ Step

SpecRun == InitMain /\ [][NextRun]_vars

\* the program ran to its exit system call
Exited == pc = "run" /\ cpu.halted /\ ~cpu.fault

\* the ASCII decimal digits of n >= 0, and str(n)
RECURSIVE Digits(_)
Digits(n) == IF n < 10 THEN <<48 + n>> ELSE Digits(n \div 10) \o <<48 + (n % 10)>>

Decimal(n) == IF n < 0 THEN <<45>> \o Digits(-n) ELSE Digits(n)

\* the 32-bit word in the frame slot at offset off of main's frame
SlotWord(m, off) == unpack_I(LoadBytes(m, AddX(m.x[29], -(16 + off)), 4))

\* the statements of the program generated so far, in order
Program == [k \in 1..Len(op[3]) |-> RunStmts[op[3][k]]]

\* the machine has stopped, by the exit call or by a fault
Stopped == pc = "run" /\ cpu.halted

IsIntDecl(st, name) ==
    /\ st.kind = "VarDecl"
    /\ st.name = name
    /\ st.value.kind = "Literal"
    /\ st.value.type = "int"

IsArrayDecl(st, name) ==
    /\ st.kind = "VarDecl"
    /\ st.name = name
    /\ st.value.kind = "ArrayLiteral"

IsPrintOf(st, name) ==
    /\ st.kind = "PrintStmt"
    /\ st.expr.kind = "VarRef"
    /\ st.expr.name = name

\* the names a statement of main reads when it runs
Reads(st) ==
    IF st.kind = "PrintStmt" /\ st.expr.kind = "VarRef" THEN {st.expr.name}
    ELSE IF st.kind = "LoopStmt" /\ st.end.kind = "VarRef" THEN {st.end.name}
    ELSE {}

\* every name a statement reads was declared by an earlier statement of
\* main, so that no frame slot is read before it is written
DeclaredBeforeUse ==
    \A k \in 1..Len(Program) : \A n \in Reads(Program[k]) :
        \E j \in 1..(k - 1) :
            Program[j].kind = "VarDecl" /\ Program[j].name = n

\* no statement before the last n of the program writes anything
QuietBefore(n) ==
    \A k \in 1..(Len(Program) - n) : Program[k].kind = "VarDecl"

EndsWith(seq, tail) ==
    /\ Len(seq) >= Len(tail)
    /\ SubSeq(seq, Len(seq) - Len(tail) + 1, Len(seq)) = tail

\* the program ends with  x = v  followed by  print x
EndsWithDeclPrint ==
    /\ Len(Program) >= 2
    /\ IsIntDecl(Program[Len(Program) - 1], "x")
    /\ IsPrintOf(Program[Len(Program)], "x")

\* the words  stur x0, [x29, #-(16 + slot)] ; ldur w0, [x29, #-(16 + slot)] ;
\* bl print_int  stand at word k + 1 .. k + 3 of the code
StoreLoadCall(k, slot) ==
    LET st == code[k + 1]
        ld == code[k + 2]
        bl == code[k + 3]
    IN  /\ IsLdStReg(st)
        /\ Bits(st, 30, 2) = 3 /\ Bits(st, 22, 2) = 0
        /\ Bits(st, 0, 5) = 0 /\ Bits(st, 5, 5) = 29
        /\ SignExtend(Bits(st, 12, 9), 9) = -(16 + slot)
        /\ IsLdStReg(ld)
        /\ Bits(ld, 30, 2) = 2 /\ Bits(ld, 22, 2) = 1
        /\ Bits(ld, 0, 5) = 0 /\ Bits(ld, 5, 5) = 29
        /\ SignExtend(Bits(ld, 12, 9), 9) = -(16 + slot)
        /\ IsBranch(bl) /\ Bits(bl, 31, 1) = 1
        /\ 4 * (k + 2) + 4 * SignExtend(Bits(bl, 0, 26), 26) = print_int_offset

\* C6: a program that declares every name before it reads it and ends with
\* x = v ; print x  for an integer literal v
\* runs to its exit call without a fault, leaves v in x's frame slot and
\* writes v in decimal followed by a newline as its last output; when these
\* are its only two statements that is all it writes, and main's code after
\* the prologue is the move of v, a store of x0 to x's slot, a load of w0
\* from the same slot and a BL whose target is print_int_offset.
C6_PrintScalar ==
    (Stopped /\ DeclaredBeforeUse /\ EndsWithDeclPrint) =>
        LET v == Program[Len(Program) - 1].value.value
            slot == variables["x"]
        IN  /\ ~cpu.fault
            /\ SlotWord(cpu, slot) = ToWord(v)
            /\ EndsWith(cpu.out, Decimal(v) \o <<10>>)
            /\ Len(Program) = 2 =>
                   /\ cpu.out = Decimal(v) \o <<10>>
                   /\ StoreLoadCall(main_offset \div 4 + 4
                                        + Len(mov_imm_words(0, v)), slot)

C6_Witness ==
    /\ Exited
    /\ op[3] = <<2, 4>>
    /\ cpu.out = <<45, 49, 50, 10>>
    /\ SlotWord(cpu, variables["x"]) = ToWord(-12)

\* the program ends with a loop whose bounds are known: literal bounds, or
\* the end bound x declared by the statement just before the loop
EndsWithLoop ==
    /\ Len(Program) >= 1
    /\ Program[Len(Program)].kind = "LoopStmt"
    /\ Program[Len(Program)].start.kind = "Literal"
    /\ \/ Program[Len(Program)].end.kind = "Literal"
       \/ /\ Len(Program) >= 2
          /\ Program[Len(Program)].end.kind = "VarRef"
          /\ IsIntDecl(Program[Len(Program) - 1],
                       Program[Len(Program)].end.name)

LoopStart == Program[Len(Program)].start.value

LoopEnd ==
    IF Program[Len(Program)].end.kind = "Literal"
    THEN Program[Len(Program)].end.value
    ELSE Program[Len(Program) - 1].value.value

\* what a body  print i  writes for i = s .. e - 1
RECURSIVE LoopOutput(_, _)
LoopOutput(s, e) ==
    IF s >= e THEN << >>
    ELSE Decimal(s) \o <<10>> \o LoopOutput(s + 1, e)

\* C7: a program that declares every name before it reads it and ends with
\* a bounded loop from s to e whose body prints
\* the loop variable runs to its exit call without a fault; the body runs
\* once for each i = s .. e - 1 in order, also when the body assigns the
\* variable the end bound was read from, and not at all when s >= e; at the
\* exit the loop variable's slot holds e when s < e and s otherwise, and the
\* loop variable is still in the variable table.
C7_BoundedLoop ==
    (Stopped /\ DeclaredBeforeUse /\ EndsWithLoop) =>
        LET var == Program[Len(Program)].var
        IN  /\ ~cpu.fault
            /\ EndsWith(cpu.out, LoopOutput(LoopStart, LoopEnd))
            /\ QuietBefore(1) => cpu.out = LoopOutput(LoopStart, LoopEnd)
            /\ var \in DOMAIN variables
            /\ SlotWord(cpu, variables[var])
                   = ToWord(IF LoopStart < LoopEnd THEN LoopEnd ELSE LoopStart)

C7_Witness ==
    /\ Exited
    /\ op[3] = <<5>>
    /\ cpu.out = <<48, 10, 49, 10, 50, 10>>
    /\ "i" \in DOMAIN variables
    /\ SlotWord(cpu, variables["i"]) = ToWord(3)

\* the program ends with  a = [e1, ..., en]  followed by  print a
EndsWithArrayPrint ==
    /\ Len(Program) >= 2
    /\ IsArrayDecl(Program[Len(Program) - 1], "a")
    /\ IsPrintOf(Program[Len(Program)], "a")

RECURSIVE ElementsText(_, _)
ElementsText(elements, k) ==
    IF k > Len(elements) THEN << >>
    ELSE (IF k > 1 THEN <<44, 32>> ELSE << >>)
             \o Decimal(elements[k].value) \o ElementsText(elements, k + 1)

ArrayText(elements) == <<91>> \o ElementsText(elements, 1) \o <<93, 10>>

\* C8: a program that declares every name before it reads it and ends with
\* the declaration of an array of integer
\* literals followed by a print of the array's name runs to its exit call
\* without a fault and writes "[", the elements in decimal with ", " before
\* every element but the first, and "]" with a newline; when these are its
\* only two statements that is all it writes and main holds no call, so the
\* print did not go through the scalar path's call of the print routine.
C8_PrintArray ==
    (Stopped /\ DeclaredBeforeUse /\ EndsWithArrayPrint) =>
        LET elements == Program[Len(Program) - 1].value.elements
        IN  /\ ~cpu.fault
            /\ EndsWith(cpu.out, ArrayText(elements))
            /\ Len(Program) = 2 =>
                   /\ cpu.out = ArrayText(elements)
                   /\ \A k \in (main_offset \div 4 + 1)..Len(code) :
                          ~(IsBranch(code[k]) /\ Bits(code[k], 31, 1) = 1)

C8_Witness ==
    /\ Exited
    /\ op[3] = <<8, 10>>
    /\ cpu.out = <<91, 49, 44, 32, 50, 44, 32, 51, 93, 10>>

(***************************************************************************)
(* SpecMacho: compile with zero or more user functions, the statements of  *)
(* main, and the writing of the file                                       *)
(***************************************************************************)
\* how many user functions a program has at most
MaxFuncs == 2
\* how many statements main has at most
MaxMachoStmts == 2

FuncNamed(j) ==
    FuncDef("f" \o Str(j), <<"p">>,
            << ReturnStmt(BinaryOp(VarRef("p"), "+", IntLit(j))) >>)

Funcs(n) == [j \in 1..n |-> FuncNamed(j)]

MachoStmts ==
    << VarDecl("a", ArrayLiteral([j \in 1..19 |-> IntLit(j)])),
       PrintStmt(VarRef("a")),
       PrintStmt(StrLit("hello")),
       VarDecl("r", FuncCall("f1", << IntLit(2) >>)) >>

InitMacho ==
    /\ IsCompiler(NewCompiler)
    /\ op = <<"__init__", 0, << >> >>
    /\ pc = "init"
    /\ main_offset = None
    /\ layout = None
    /\ binary = << >>
    /\ cpu = None

\* compile up to the end of main's prologue, for a program with n functions
Begin(n) ==
    /\ pc = "init"
    /\ LET s == compile_begin(Self, Funcs(n))
       IN  /\ Install(s)
           /\ main_offset' = s.ret
    /\ op' = <<"compile", n, << >> >>
    /\ pc' = "main"
    /\ UNCHANGED <<layout, binary, cpu>>

GenMachoStmt(i) == GenStmtOf(MachoStmts, MaxMachoStmts, i)

NextMacho ==
    \/ \E n \in 0..MaxFuncs : Begin(n)
    \/ \E i \in DOMAIN MachoStmts : GenMachoStmt(i)
    \/ Finish

SpecMacho == InitMacho /\ [][NextMacho]_vars

\* C9: in the written file the offset field of the entry-point command is
\* the code's file offset, one page, plus main_offset; the words at that
\* file position are main's prologue, the word before it is the return of
\* the last helper routine, and every user function's code lies before it.
C9_EntryPoint ==
    pc = "written" =>
        LET entry == Off(EntryOffset(binary))
        IN  /\ EntryOffset(binary)
                   = Int64(layout.code_file_offset + main_offset)
            /\ layout.code_file_offset = macho.pageSize
            /\ [j \in 1..4 |-> U32At(binary, entry + 4 * (j - 1))]
                   = << inst.prologue.stp_fp_lr, inst.prologue.stp_x19_x20,
                        inst.prologue.mov_fp_sp, Hex(\hD104, \h03FF) >>
            /\ U32At(binary, entry - 4) = inst.epilogue.ret
            /\ print_float_offset < main_offset
            /\ \A f \in DOMAIN functions :
                   functions[f].code_offset < main_offset

C9_Witness ==
    /\ pc = "written"
    /\ DOMAIN functions = {"f1", "f2"}
    /\ functions["f1"].code_offset > print_float_offset
    /\ EntryOffset(binary) = Int64(macho.pageSize + main_offset)
    /\ U32At(binary, Off(EntryOffset(binary))) = inst.prologue.stp_fp_lr

\* the address the adrp/add pair at words k, k + 1 of code c computes
PairAddress(c, lay, k) ==
    AddX(AddX(PageOf(AddX(lay.code_vm_addr, 4 * (k - 1))),
              AdrpImm(c[k]) * 4096),
         Bits(c[k + 1], 10, 12))

\* C10: when the file is written, every adrp/add pair the code generator
\* emitted with data offset d computes, after the fixup, the address
\* data_vm_addr + d.
C10_FixupAddress ==
    [][(pc = "main" /\ pc' = "written") =>
          \A k \in 1..(Len(code) - 1) :
              (IsAdrp(code[k]) /\ IsAddSubImm(code[k + 1])) =>
                  PairAddress(code', layout', k)
                      = AddX(layout'.data_vm_addr, Bits(code[k + 1], 10, 12))]_vars

\* the least multiple of m that is at least n
RoundUp(n, m) == CHOOSE r \in n..(n + m - 1) : r % m = 0

\* C11: when the file is written, the code buffer (unpadded words long when
\* _write_macho is called) and the data buffer are padded with zeros to a
\* multiple of 16 bytes; the code starts at file offset one page and the
\* data at the code offset plus the padded code length; the text region
\* size is the least multiple of the page size that is at least the data
\* offset plus the data length; the link-metadata region starts at the text
\* region size and is one page long; and, the header and load commands
\* fitting in the first page, the file holds the code bytes at the code
\* offset, the data bytes at the data offset, and is text region size plus
\* one page long.
C11_Layout ==
    [][(pc = "main" /\ pc' = "written") =>
          LET page == macho.pageSize
              lay == layout'
              unpadded == Len(compile_end(Self).code)
          IN  /\ 4 * Len(code') = RoundUp(4 * unpadded, 16)
              /\ \A k \in (unpadded + 1)..Len(code') : code'[k] = Hex(0, 0)
              /\ Len(data') = RoundUp(Len(data), 16)
              /\ SubSeq(data', 1, Len(data)) = data
              /\ \A i \in (Len(data) + 1)..Len(data') : data'[i] = 0
              /\ lay.code_file_offset = page
              /\ lay.data_file_offset = lay.code_file_offset + 4 * Len(code')
              /\ lay.text_file_size
                     = RoundUp(lay.data_file_offset + Len(data'), page)
              /\ lay.linkedit_file_off = lay.text_file_size
              /\ lay.linkedit_file_size = page
              /\ (32 + lay.sizeofcmds <= page) =>
                     /\ \A k \in 1..Len(code') :
                            U32At(binary', lay.code_file_offset + 4 * (k - 1))
                                = code'[k]
                     /\ \A i \in 1..Len(data') :
                            ByteAt(binary', lay.data_file_offset + i - 1)
                                = data'[i]
                     /\ BinLen(binary') = lay.text_file_size + page]_vars

\* a written file whose code and data both needed padding: the code ends
\* with a zero word, and the data is longer than the helper's constant
C11_Witness ==
    /\ pc = "written"
    /\ code[Len(code)] = Hex(0, 0)
    /\ Len(data) > 16
    /\ data[Len(data) - 8] = 0
    /\ 32 + layout.sizeofcmds <= macho.pageSize
    /\ layout.data_file_offset = macho.pageSize + 4 * Len(code)
    /\ BinLen(binary) = layout.text_file_size + macho.pageSize

(***************************************************************************)
(* SpecGen: the statements of main generated one after another, as the     *)
(* loop "for stmt in main_stmts: self._gen_stmt(stmt)" of compile does,    *)
(* from the state compile is in after main's prologue                      *)
(***************************************************************************)
\* how many statements main has at most
MaxGenStmts == 3

\* the statements main is made of
GenStmts ==
    << VarDecl("a_0", IntLit(1)),
       VarDecl("a_0", BinaryOp(VarRef("a_0"), "+", IntLit(2))),
       VarDecl("a", ArrayLiteral(<< ArrayLiteral(<< IntLit(1) >>),
                                    ArrayLiteral(<< IntLit(2) >>) >>)),
       VarDecl("x", IntLit(5)),
       VarDecl("x", ArrayLiteral(<< IntLit(1), IntLit(2) >>)),
       VarDecl("x", TupleLiteral(<< IntLit(1), StrLit("s") >>)),
       VarDecl("x", DictLiteral(<< << StrLit("k"), IntLit(1) >> >>)),
       VarDecl("f", Literal("float", "2.5")),
       LoopStmt("i", IntLit(0), IntLit(3), << PrintStmt(VarRef("i")) >>),
       IfStmt(BinaryOp(VarRef("x"), "==", IntLit(5)),
              << PrintStmt(StrLit("y")) >>, << >>),
       PrintStmt(VarRef("x")) >>

\* self._gen_stmt(stmt) for the next statement of main, statement i of
\* GenStmts
GenStmt(i) == GenStmtOf(GenStmts, MaxGenStmts, i)

NextGen == \E i \in DOMAIN GenStmts : GenStmt(i)

SpecGen == InitMain /\ [][NextGen]_vars

\* the names whose entry in variables is a scalar's slot: declared, and not
\* an array, a tuple, a dictionary or a float
ScalarNames ==
    { n \in DOMAIN variables :
        /\ n \notin DOMAIN arrays
        /\ n \notin DOMAIN tuples
        /\ n \notin DOMAIN dicts
        /\ n \notin float_vars }

\* statement i of GenStmts declares name n as an array, a tuple or a
\* dictionary
RedeclaresAsCollection(i, n) ==
    /\ GenStmts[i].kind = "VarDecl"
    /\ GenStmts[i].name = n
    /\ GenStmts[i].value.kind \in {"ArrayLiteral", "TupleLiteral", "DictLiteral"}

\* C4: once a scalar variable is declared, no further statement of the
\* scope (a declaration of another name, a loop, a conditional, a print, a
\* re-assignment of the same scalar) changes variables[name].  The code
\* violates it: declaring the nested array a declares its sub-arrays under
\* the names a_0, a_1, and variables["a_0"] is overwritten.
C4_ScalarSlotStable ==
    [][\A n \in ScalarNames :
          ~RedeclaresAsCollection(op'[2], n)
              => n \in DOMAIN variables' /\ variables'[n] = variables[n]]_vars

\* C5: for every name, once variables[name] is set no later declaration
\* (scalar, float, array, tuple, dictionary, loop variable, re-declaration
\* included) changes its value.  The code violates it: an array, tuple or
\* dictionary declaration assigns variables[name] unconditionally.
C5_EntryNeverChanges ==
    [][\A n \in DOMAIN variables :
          n \in DOMAIN variables' /\ variables'[n] = variables[n]]_vars

(***************************************************************************)
(* SpecFunc: compile of a program with user functions, position by         *)
(* position: the function table collected, each function entered, its body *)
(* generated statement by statement, the function left, then main's        *)
(* prologue, the statements of main, and the file written.  op is          *)
(* <<method, fs, k, j, saved, ms>>: fs the program's functions (indices    *)
(* into FuncDefs), k how many of them are generated, j how many body       *)
(* statements of function k + 1 are generated, saved the old_vars and      *)
(* old_offset locals of _gen_func, ms the statements of main generated so  *)
(* far (indices into FuncStmts)                                            *)
(***************************************************************************)
\* how many user functions a program has at most
MaxFuncDefs == 2
\* how many statements main has at most
MaxFuncStmts == 2

\* the function definitions programs are made of
FuncDefs ==
    << FuncDef("f", <<"p">>,
               << ReturnStmt(BinaryOp(VarRef("p"), "+", IntLit(1))) >>),
       FuncDef("f_ret", << >>,
               << VarDecl("x", IntLit(5)), PrintStmt(VarRef("x")) >>),
       FuncDef("g", <<"a", "b">>,
               << IfStmt(BinaryOp(VarRef("a"), "<", VarRef("b")),
                         << ReturnStmt(VarRef("a")) >>, << >>),
                  LoopStmt("i", IntLit(0), IntLit(2),
                           << ReturnStmt(VarRef("b")) >>) >>) >>

\* the statements main is made of: a call with one argument, a call with
\* nine arguments, a return outside any function, a call without arguments
FuncStmts ==
    << VarDecl("r", FuncCall("f", << IntLit(2) >>)),
       VarDecl("q", FuncCall("g", [j \in 1..9 |-> IntLit(10 + j)])),
       ReturnStmt(IntLit(3)),
       VarDecl("t", FuncCall("f_ret", << >>)) >>

\* the programs: up to MaxFuncDefs different definitions in any order
FuncPrograms ==
    { fs \in UNION { [1..n -> DOMAIN FuncDefs] : n \in 0..MaxFuncDefs } :
        \A i, j \in DOMAIN fs : i # j => fs[i] # fs[j] }

\* program.statements of the program with functions fs
ProgramOf(fs) == [i \in DOMAIN fs |-> FuncDefs[fs[i]]]

InitFunc ==
    /\ IsCompiler(NewCompiler)
    /\ op = <<"__init__", << >>, 0, 0, None, << >> >>
    /\ pc = "init"
    /\ main_offset = None
    /\ layout = None
    /\ binary = << >>
    /\ cpu = None

\* compile up to the loop that generates the functions, for program fs
Collect(fs) ==
    /\ pc = "init"
    /\ Install(compile_collect(Self, ProgramOf(fs)))
    /\ op' = <<"compile", fs, 0, 0, None, << >> >>
    /\ pc' = "funcs"
    /\ UNCHANGED out_vars

\* the function being generated
CurrentDef == FuncDefs[op[2][op[3] + 1]]

\* self.functions[stmt.name]['code_offset'] = len(self.code), and _gen_func
\* up to the loop over the body
FuncEnter ==
    /\ pc = "funcs"
    /\ op[3] < Len(op[2])
    /\ Install(gen_func_enter(
           [Self EXCEPT !.functions[CurrentDef.name].code_offset =
                            CodeLen(Self)],
           CurrentDef))
    /\ op' = [op EXCEPT ![1] = "_gen_func", ![4] = 0,
                        ![5] = <<variables, stack_offset>>]
    /\ pc' = "body"
    /\ UNCHANGED out_vars

\* self._gen_stmt(stmt) for the next statement of the function's body
FuncStmt ==
    /\ pc = "body"
    /\ op[4] < Len(CurrentDef.body)
    /\ Install(gen_stmt(Self, CurrentDef.body[op[4] + 1]))
    /\ op' = [op EXCEPT ![1] = "_gen_stmt", ![4] = @ + 1]
    /\ UNCHANGED <<pc, out_vars>>

\* _gen_func after the loop over the body
FuncExit ==
    /\ pc = "body"
    /\ op[4] = Len(CurrentDef.body)
    /\ Install(gen_func_exit(Self, CurrentDef, op[5][1], op[5][2]))
    /\ op' = [op EXCEPT ![1] = "_gen_func", ![3] = @ + 1, ![4] = 0,
                        ![5] = None]
    /\ pc' = "funcs"
    /\ UNCHANGED out_vars

\* main_offset and main's prologue
BeginMain ==
    /\ pc = "funcs"
    /\ op[3] = Len(op[2])
    /\ LET s == compile_prologue(Self)
       IN  /\ Install(s)
           /\ main_offset' = s.ret
    /\ op' = [op EXCEPT ![1] = "compile"]
    /\ pc' = "main"
    /\ UNCHANGED <<layout, binary, cpu>>

\* self._gen_stmt(stmt) for the next statement of main, statement i of
\* FuncStmts
MainStmt(i) ==
    /\ pc = "main"
    /\ Len(op[6]) < MaxFuncStmts
    /\ Install(gen_stmt(Self, FuncStmts[i]))
    /\ op' = [op EXCEPT ![1] = "_gen_stmt", ![6] = Append(@, i)]
    /\ UNCHANGED <<pc, out_vars>>

NextFunc ==
    \/ \E fs \in FuncPrograms : Collect(fs)
    \/ FuncEnter
    \/ FuncStmt
    \/ FuncExit
    \/ BeginMain
    \/ \E i \in DOMAIN FuncStmts : MainStmt(i)
    \/ Finish

SpecFunc == InitFunc /\ [][NextFunc]_vars

\* C13: during one compilation no key of label_offsets is written twice: a
\* label that is in the table stays in it with the offset it was given.
\* The code violates it: the exit label of function f and the entry label
\* of function f_ret are the same key, "_f_ret".
C13_LabelWrittenOnce ==
    [][pc # "init" =>
          \A l \in DOMAIN label_offsets :
              l \in DOMAIN label_offsets'
                  /\ label_offsets'[l] = label_offsets[l]]_vars


\* the table _gen_func binds the parameters in: parameter i (from 0) at
\* offset 16 + 8 * i
ParamTable(params) ==
    [n \in { params[i] : i \in DOMAIN params } |->
        16 + 8 * ((CHOOSE i \in DOMAIN params : params[i] = n) - 1)]

\* C14: _gen_func installs, on entry, a variable table that holds exactly
\* the parameters, parameter i (from 0) at offset 16 + 8 * i, the table
\* being empty and stack_offset 16 before the first of them is bound; and,
\* on exit, sets variables and stack_offset to the values they had before
\* the call (which old_vars and old_offset hold throughout the body),
\* whatever the body's statements declared.
C14_FrameEffect ==
    [][/\ (pc = "funcs" /\ pc' = "body") =>
              /\ variables' = ParamTable(CurrentDef.params)
              /\ stack_offset' = 16 + 8 * Len(CurrentDef.params)
              /\ op'[5] = <<variables, stack_offset>>
       /\ (pc = "body" /\ pc' = "body") => op'[5] = op[5]
       /\ (pc = "body" /\ pc' = "funcs") =>
              /\ variables' = op[5][1]
              /\ stack_offset' = op[5][2]]_vars

\* two functions are generated, the first one g, whose body declared a loop
\* variable and a loop bound after its two parameters; the caller's empty
\* table and stack_offset 0 are back
C14_Witness ==
    /\ pc = "funcs"
    /\ op[2] = <<3, 1>>
    /\ op[3] = 2
    /\ {"_g", "_g_ret", "_f", "_f_ret"} \subseteq DOMAIN label_offsets
    /\ variables = EmptyDict
    /\ stack_offset = 0


(***************************************************************************)
(* SpecCtl: programs of one conditional, of one comparison stored and      *)
(* printed, of a conditional loop and of a unary operation, compiled       *)
(* statement by statement, written and run.  op[3] holds the statements    *)
(* generated so far                                                        *)
(***************************************************************************)
\* the comparison operators, and the operand pairs they are tried on
CmpOps == {"==", "!=", "<", ">", "<=", ">="}

CmpOperands == { <<2, 3>>, <<3, 2>>, <<3, 3>> }

\* when cond { print "t" } else { print "e" }
IfProgram(cond) ==
    << IfStmt(cond, << PrintStmt(StrLit("t")) >>, << PrintStmt(StrLit("e")) >>) >>

\* when cond { print "t" }, then print "z"
IfOnlyProgram(cond) ==
    << IfStmt(cond, << PrintStmt(StrLit("t")) >>, << >>),
       PrintStmt(StrLit("z")) >>

\* c = l o r, then print c
SetProgram(o, l, r) ==
    << VarDecl("c", BinaryOp(IntLit(l), o, IntLit(r))),
       PrintStmt(VarRef("c")) >>

\* x = 0, a loop over the condition x < 1 whose body sets x to 1, print x
WhileProgram ==
    << VarDecl("x", IntLit(0)),
       WhileStmt(BinaryOp(VarRef("x"), "<", IntLit(1)),
                 << VarDecl("x", IntLit(1)) >>),
       PrintStmt(VarRef("x")) >>

\* n = -5, then print n
UnaryProgram ==
    << VarDecl("n", UnaryOp("-", IntLit(5))), PrintStmt(VarRef("n")) >>

CtlPrograms ==
    { IfProgram(BinaryOp(IntLit(v[1]), o, IntLit(v[2]))) :
          o \in CmpOps, v \in CmpOperands }
    \cup { IfOnlyProgram(BinaryOp(IntLit(v[1]), o, IntLit(v[2]))) :
               o \in {"<", ">="}, v \in CmpOperands }
    \cup { IfProgram(IntLit(v)) : v \in {0, 1} }
    \cup { IfProgram(BinaryOp(IntLit(v), "+", IntLit(0))) : v \in {0, 1} }
    \cup { SetProgram(o, v[1], v[2]) : o \in CmpOps, v \in CmpOperands }
    \cup { WhileProgram, UnaryProgram }

\* self._gen_stmt(stmt) for the next statement of main, of program p
CtlStmt(p) ==
    /\ pc = "main"
    /\ Len(op[3]) < Len(p)
    /\ op[3] = SubSeq(p, 1, Len(op[3]))
    /\ Install(gen_stmt(Self, p[Len(op[3]) + 1]))
    /\ op' = <<"_gen_stmt", Len(op[3]) + 1, Append(op[3], p[Len(op[3]) + 1])>>
    /\ UNCHANGED <<pc, out_vars>>

NextCtl ==
    \/ \E p \in CtlPrograms : CtlStmt(p)
    \/ Finish
    \/ Launch
    \/ Step

SpecCtl == InitMain /\ [][NextCtl]_vars

\* the value of an integer expression of literals
RECURSIVE Eval(_)
Eval(node) ==
    IF node.kind = "Literal" THEN IntOf(node)
    ELSE IF node.kind = "UnaryOp" THEN -Eval(node.operand)
    ELSE LET l == Eval(node.left)
             r == Eval(node.right)
         IN  CASE node.op = "+" -> l + r
               [] node.op = "==" -> IF l = r THEN 1 ELSE 0
               [] node.op = "!=" -> IF l # r THEN 1 ELSE 0
               [] node.op = "<" -> IF l < r THEN 1 ELSE 0
               [] node.op = ">" -> IF l > r THEN 1 ELSE 0
               [] node.op = "<=" -> IF l <= r THEN 1 ELSE 0
               [] node.op = ">=" -> IF l >= r THEN 1 ELSE 0


\* the program that was generated and ran to its exit call is an IfStmt,
\* followed by a print when it has no else body
RanIf ==
    /\ Exited
    /\ Len(op[3]) >= 1
    /\ op[3][1].kind = "IfStmt"
    /\ Len(op[3]) = (IF op[3][1].else_body = << >> THEN 2 ELSE 1)

\* what such a program writes when its condition is true, and when it is
\* false: "t", "e" and "z", a newline after each
IfOutput(truth) ==
    IF op[3][1].else_body = << >>
    THEN (IF truth THEN <<116, 10>> ELSE << >>) \o <<122, 10>>
    ELSE IF truth THEN <<116, 10>> ELSE <<101, 10>>

\* C18: an IfStmt runs its then-body exactly when its condition is true
\* (not zero) and its else-body, if any, exactly when it is false, whether
\* the condition is a direct comparison, a literal or another BinaryOp.
\* The code violates it: for a BinaryOp that is not one of the six
\* comparisons _gen_if emits the compare and no branch to the else label,
\* so the then-body runs although the condition is 0.
C18_IfRunsOneBody ==
    RanIf => cpu.out = IfOutput(Eval(op[3][1].condition) # 0)

\* the part of C18 the code implements: the six direct comparisons and the
\* conditions that are not a BinaryOp
DirectOrPlain(cond) == cond.kind # "BinaryOp" \/ cond.op \in CmpOps

IfComparisonRunsOneBody ==
    (RanIf /\ DirectOrPlain(op[3][1].condition))
        => cpu.out = IfOutput(Eval(op[3][1].condition) # 0)


\* the program that was generated and ran to its exit call stores a
\* comparison in c and prints c
RanSet ==
    /\ Exited
    /\ Len(op[3]) = 2
    /\ op[3][1].kind = "VarDecl"
    /\ op[3][1].name = "c"

\* C19: a comparison in expression position leaves 1 in the result register
\* when it holds and 0 otherwise, for each of ==, !=, <, >, <=, >=: the
\* variable it is stored in holds that value, and the value is what is
\* printed.  The code violates it: _gen_expr emits no compare and no
\* conditional set for <= and >=, and the result register keeps the left
\* operand.
C19_CompareSets ==
    RanSet =>
        /\ SlotWord(cpu, 16) = ToWord(Eval(op[3][1].value))
        /\ cpu.out = Decimal(Eval(op[3][1].value)) \o <<10>>

\* the part of C19 the code implements: ==, !=, < and >
FourComparisonsSet ==
    (RanSet /\ op[3][1].value.op \in {"==", "!=", "<", ">"}) =>
        /\ SlotWord(cpu, 16) = ToWord(Eval(op[3][1].value))
        /\ cpu.out = Decimal(Eval(op[3][1].value)) \o <<10>>

\* C15: every supported statement emits code implementing it: generating a
\* statement of main appends code; a conditional loop appends a backward
\* unconditional jump; a declaration whose value is a unary operation
\* appends the operation's code before the store.  The code violates it:
\* _gen_loop returns at once for a loop without start and end, and
\* _gen_expr has no case for UnaryOp.
C15_EveryKindEmits ==
    [][(pc = "main" /\ pc' = "main") =>
          LET st == op'[3][Len(op'[3])]
          IN  /\ Len(code') > Len(code)
              /\ (st.kind = "LoopStmt" /\ st.start.kind = "None") =>
                     \E i \in 1..Len(pending_branches') :
                         LET b == pending_branches'[i]
                         IN  /\ b.type = "b"
                             /\ b.offset >= 4 * Len(code)
                             /\ b.label \in DOMAIN label_offsets'
                             /\ label_offsets'[b.label] <= b.offset
              /\ (st.kind = "VarDecl" /\ st.value.kind = "UnaryOp") =>
                     Len(code') > Len(code) + 1]_vars


(***************************************************************************)
(* SpecFrame: each of the six frame-slot emitters applied once, to a       *)
(* register and to the offset stack_offset, for every offset the           *)
(* allocation of 8-byte slots from 16 on reaches                           *)
(***************************************************************************)
\* how many slots are allocated at most
MaxFrameSlots == 64

FrameOffsets == { 16 + 8 * k : k \in 0..MaxFrameSlots }

FrameKinds == {"_emit_store", "_emit_load", "_emit_store_x", "_emit_load_x",
               "_emit_store_d", "_emit_load_d"}

InitFrame ==
    /\ \E o \in FrameOffsets : IsCompiler([NewCompiler EXCEPT !.stack_offset = o])
    /\ op = <<"__init__", 0>>
    /\ pc = "gen"
    /\ NoOutput

\* self._emit_store(reg, offset) and its five siblings
FrameEmit(s, kind, reg, offset) ==
    CASE kind = "_emit_store" -> emit_store(s, reg, offset)
      [] kind = "_emit_load" -> emit_load(s, reg, offset)
      [] kind = "_emit_store_x" -> emit_store_x(s, reg, offset)
      [] kind = "_emit_load_x" -> emit_load_x(s, reg, offset)
      [] kind = "_emit_store_d" -> emit_store_d(s, reg, offset)
      [] kind = "_emit_load_d" -> emit_load_d(s, reg, offset)

FrameAccess(kind, reg) ==
    /\ pc = "gen"
    /\ Install(FrameEmit(Self, kind, reg, stack_offset))
    /\ op' = <<kind, reg>>
    /\ pc' = "done"
    /\ UNCHANGED out_vars

NextFrame == \E kind \in FrameKinds, reg \in {0, 1, 19} : FrameAccess(kind, reg)

SpecFrame == InitFrame /\ [][NextFrame]_vars

\* the displacement from the frame base the emitted word's 9-bit field
\* encodes, and the bytes the access covers
Displacement == SignExtend(Bits(code[1], 12, 9), 9)

AccessSize == IF op[1] \in {"_emit_store", "_emit_load"} THEN 4 ELSE 8

\* the access lies within the 256 bytes the prologue reserves below the
\* frame base
InFrame == -256 <= Displacement /\ Displacement + AccessSize <= 0

\* C16 as stated: no emitter checks its offset; the field is
\* (-offset - 16) mod 512; for offsets 16 to 240 it sign-extends to
\* -(offset + 16), inside the frame; for every offset of 248 or more it
\* decodes to a different displacement that lies outside the frame.  The
\* last part fails: from offset 504 on the field wraps into the frame again.
C16_BeyondFrameOutside ==
    pc = "done" =>
        /\ Bits(code[1], 12, 9) = (-stack_offset - 16) % 512
        /\ stack_offset <= 240 =>
               Displacement = -(stack_offset + 16) /\ InFrame
        /\ stack_offset >= 248 =>
               Displacement # -(stack_offset + 16) /\ ~InFrame

\* C16, amended: every emitter emits one word for any offset, with base
\* register 29, the given register and the field (-offset - 16) mod 512,
\* which decodes to ((240 - offset) mod 512) - 256: for offsets 16 to 240
\* that is -(offset + 16), inside the frame; for offsets 248 to 496 it is
\* 496 - offset, from 248 down to 0, at or above the frame base and outside
\* the frame; for offsets 504 to 752 it is 496 - offset again, from -8 down
\* to -256, inside the frame at another slot's place.
C16_FrameField ==
    pc = "done" =>
        /\ Len(code) = 1
        /\ Bits(code[1], 12, 9) = (-stack_offset - 16) % 512
        /\ Bits(code[1], 5, 5) = 29
        /\ Bits(code[1], 0, 5) = op[2]
        /\ Displacement = ((240 - stack_offset) % 512) - 256
        /\ stack_offset <= 240 =>
               Displacement = -(stack_offset + 16) /\ InFrame
        /\ (248 <= stack_offset /\ stack_offset <= 496) =>
               /\ Displacement = 496 - stack_offset
               /\ Displacement >= 0
               /\ ~InFrame
        /\ (504 <= stack_offset /\ stack_offset <= 752) =>
               /\ Displacement = 496 - stack_offset
               /\ InFrame

\* a 64-bit store emitted for offset 504: its field decodes to -8
C16_Witness ==
    /\ pc = "done"
    /\ op = <<"_emit_store_x", 19>>
    /\ stack_offset = 504
    /\ Bits(code[1], 12, 9) = 504
    /\ Displacement = -8


\* the pending branches the ReturnStmt case of _gen_stmt added: the
\* unconditional ones to f'_{self.current_func}_ret'
ReturnBranches ==
    { i \in 1..Len(pending_branches) :
          /\ pending_branches[i].type = "b"
          /\ pending_branches[i].label \in
                 { "_" \o n \o "_ret" : n \in DOMAIN functions \cup {None} } }

\* the offset of the first epilogue instruction of the function the branch
\* site lies in: the first add sp, sp, #256 after the site that follows the
\* instruction zeroing w0; -1 for a site in main, which has no epilogue
EpilogueOf(site) ==
    LET ts == { t \in { 4 * k : k \in 1..(Len(code) - 1) } :
                    /\ t > site
                    /\ WordAt(code, t) = Hex(\h9104, \h03FF)
                    /\ WordAt(code, t - 4) = inst.moves.mov_w0_0 }
    IN  IF site < main_offset /\ ts # {}
        THEN CHOOSE t \in ts : \A u \in ts : t <= u
        ELSE -1

\* C17: when the program is written, the unconditional pending branch of
\* every ReturnStmt, in a function body at any nesting or in the top-level
\* statements, has its label in the label table and is resolved to the first
\* epilogue instruction of the enclosing function, the one after the
\* instruction that zeroes w0.  The code violates it: a top-level return
\* branches to '_None_ret', which is in no table, and stays the placeholder.
C17_ReturnsShareEpilogue ==
    pc = "written" =>
        \A i \in ReturnBranches :
            LET b == pending_branches[i]
            IN  /\ b.label \in DOMAIN label_offsets
                /\ BranchTarget(WordAt(code, b.offset), "b", b.offset)
                       = EpilogueOf(b.offset)

\* the same for the returns inside function bodies only: also violated, by
\* the return of f when a function f_ret is generated after f
ReturnInFunctionSharesEpilogue ==
    pc = "written" =>
        \A i \in ReturnBranches :
            LET b == pending_branches[i]
            IN  b.offset < main_offset =>
                    /\ b.label \in DOMAIN label_offsets
                    /\ BranchTarget(WordAt(code, b.offset), "b", b.offset)
                           = EpilogueOf(b.offset)

\* what holds: a return inside a function whose exit label is no function's
\* entry label reaches that function's epilogue
ReturnReachesOwnEpilogue ==
    pc = "written" =>
        \A i \in ReturnBranches :
            LET b == pending_branches[i]
            IN  (/\ b.offset < main_offset
                 /\ b.label \notin { "_" \o n : n \in DOMAIN functions }) =>
                    /\ b.label \in DOMAIN label_offsets
                    /\ BranchTarget(WordAt(code, b.offset), "b", b.offset)
                           = EpilogueOf(b.offset)


\* the words that evaluate the integer arguments args[i + 1], ... up to the
\* eighth, each followed by mov w(19 + i), w0
RECURSIVE ArgWords(_, _)
ArgWords(args, i) ==
    IF i >= Len(args) \/ i >= 8 THEN << >>
    ELSE mov_imm_words(0, IntOf(args[i + 1]))
             \o << Hex(\h2A00, \h03E0 + 19 + i) >>
             \o ArgWords(args, i + 1)

\* the words of a call: the arguments parked, then mov w(i), w(19 + i) for
\* each of them, then the placeholder of the call
CallWords(call) ==
    LET n == IF Len(call.args) < 8 THEN Len(call.args) ELSE 8
    IN  ArgWords(call.args, 0)
            \o [i \in 1..n |-> Hex(\h2A00 + 19 + i - 1, \h03E0 + i - 1)]
            \o << Hex(\h1400, 0) >>

\* the step generates a declaration whose value is a call: the words of the
\* call and one pending bl to '_<name>' at its last word, then the store of
\* the declaration; for a name that is no function of the program, the
\* store alone
CallEmitted ==
    LET stmt == FuncStmts[op'[6][Len(op'[6])]]
        call == stmt.value
        k == Len(code)
        cw == CallWords(call)
    IN  IF call.name \in DOMAIN functions
        THEN /\ Len(code') = k + Len(cw) + 1
             /\ SubSeq(code', 1, k + Len(cw)) = code \o cw
             /\ pending_branches' =
                    Append(pending_branches,
                           [offset |-> 4 * (k + Len(cw) - 1),
                            label |-> "_" \o call.name, type |-> "bl"])
        ELSE /\ Len(code') = k + 1
             /\ SubSeq(code', 1, k) = code
             /\ pending_branches' = pending_branches

IsCallStep ==
    /\ pc = "main" /\ pc' = "main"
    /\ FuncStmts[op'[6][Len(op'[6])]].kind = "VarDecl"

\* C20: a call to a function of the program evaluates the first min(n, 8)
\* arguments in order, each moved to holding register 19 + i, then moves
\* holding register 19 + i to argument register i, then emits exactly one
\* pending bl to '_<name>', which resolution makes a call of that function's
\* entry offset; further arguments are not evaluated, a call to a name that
\* is no function emits nothing.  The code violates the resolution part: the
\* call of f_ret is resolved to the epilogue of f when f is generated after
\* f_ret.
C20_CallSequence ==
    [][/\ IsCallStep => CallEmitted
       /\ (pc = "main" /\ pc' = "written") =>
              \A i \in 1..Len(pending_branches') :
                  LET b == pending_branches'[i]
                  IN  \A n \in DOMAIN functions :
                          (b.type = "bl" /\ b.label = "_" \o n) =>
                              BranchTarget(WordAt(code', b.offset), "bl",
                                           b.offset)
                                  = functions[n].code_offset]_vars

\* what holds: the emitted sequence always, and the resolution to the entry
\* offset for every function whose entry label is no function's exit label
CallSequenceToEntry ==
    [][/\ IsCallStep => CallEmitted
       /\ (pc = "main" /\ pc' = "written") =>
              \A i \in 1..Len(pending_branches') :
                  LET b == pending_branches'[i]
                  IN  \A n \in DOMAIN functions :
                          (/\ b.type = "bl" /\ b.label = "_" \o n
                           /\ b.label \notin { "_" \o m \o "_ret" :
                                                   m \in DOMAIN functions }) =>
                              BranchTarget(WordAt(code', b.offset), "bl",
                                           b.offset)
                                  = functions[n].code_offset]_vars


(***************************************************************************)
(* SpecSkip: _gen_expr and _gen_stmt applied, in main, to nodes with and   *)
(* without a case.  op = <<method, i, done>>: the node just generated      *)
(* (an index into SkipNodes) and the nodes generated so far                *)
(***************************************************************************)
\* how many nodes are generated at most
MaxSkipNodes == 3

\* the nodes, each with the method it is given to
SkipNodes ==
    << [via |-> "_gen_expr", node |-> Literal("nil", None)],
       [via |-> "_gen_expr", node |-> StrLit("s")],
       [via |-> "_gen_expr", node |-> VarRef("u")],
       [via |-> "_gen_expr", node |-> UnaryOp("-", IntLit(5))],
       [via |-> "_gen_expr", node |-> InputExpr(StrLit("p"))],
       [via |-> "_gen_expr", node |-> FuncCall("h", << IntLit(1) >>)],
       [via |-> "_gen_expr", node |-> BinaryOp(IntLit(1), "&&", IntLit(2))],
       [via |-> "_gen_stmt",
        node |-> CollectionLoop("e", VarRef("xs"),
                                << PrintStmt(VarRef("e")) >>)],
       [via |-> "_gen_stmt",
        node |-> FuncDef("inner", <<"p">>, << ReturnStmt(VarRef("p")) >>)],
       [via |-> "_gen_stmt", node |-> VarDecl("x", IntLit(5))] >>

\* the nodes neither _gen_expr nor _gen_stmt has a case for
NoCase ==
    { i \in DOMAIN SkipNodes :
          \/ SkipNodes[i].node.kind \in {"UnaryOp", "InputExpr", "FuncDef"}
          \/ SkipNodes[i].node.kind = "FuncCall"
          \/ /\ SkipNodes[i].node.kind = "LoopStmt"
             /\ SkipNodes[i].node.start.kind = "None" }

\* the literal kinds and the variable references that the last branch of
\* their case handles
LastBranch ==
    { i \in DOMAIN SkipNodes :
          \/ /\ SkipNodes[i].node.kind = "Literal"
             /\ SkipNodes[i].node.type \notin {"int", "bool"}
          \/ /\ SkipNodes[i].node.kind = "VarRef"
             /\ SkipNodes[i].node.name \notin DOMAIN variables }

\* self._gen_expr(node) or self._gen_stmt(node) for node i of nodes
GenNodeOf(nodes, max, i) ==
    /\ pc = "main"
    /\ Len(op[3]) < max
    /\ IF nodes[i].via = "_gen_expr"
       THEN Install(gen_expr(Self, nodes[i].node))
       ELSE Install(gen_stmt(Self, nodes[i].node))
    /\ op' = <<nodes[i].via, i, Append(op[3], i)>>
    /\ UNCHANGED <<pc, out_vars>>

GenNode(i) == GenNodeOf(SkipNodes, MaxSkipNodes, i)

NextSkip == \E i \in DOMAIN SkipNodes : GenNode(i)

SpecSkip == InitMain /\ [][NextSkip]_vars

\* the buffers and tables the step leaves alone
BuffersUnchanged ==
    /\ data' = data
    /\ label_offsets' = label_offsets
    /\ pending_branches' = pending_branches

MaxVarNodes == 3

VarNodes ==
    << [via |-> "_gen_stmt", node |-> EnumDef("Color", <<"Red", "Blue">>)],
       [via |-> "_gen_stmt",
        node |-> VarDecl("v", IndexAccess(VarRef("Color"), StrLit("Red")))],
       [via |-> "_gen_stmt", node |-> VarDecl("v", StrLit("hi"))],
       [via |-> "_gen_stmt", node |-> VarDecl("v", IntLit(5))],
       [via |-> "_gen_stmt", node |-> VarDecl("v", Literal("float", "2.5"))],
       [via |-> "_gen_stmt", node |-> VarDecl("v", Literal("bool", TRUE))],
       [via |-> "_gen_expr", node |-> VarRef("v")],
       [via |-> "_gen_stmt", node |-> PrintStmt(VarRef("v"))] >>

GenVarNode(i) == GenNodeOf(VarNodes, MaxVarNodes, i)

NextVar == \E i \in DOMAIN VarNodes : GenVarNode(i)

SpecVar == InitMain /\ [][NextVar]_vars

\* what the most recent declaration of v among the nodes done stored:
\* "enum" (the pointer of an enum case), "str" (declared from a string
\* literal), "int", "float", "bool", "stale" (an access of an enum that is
\* not defined: no value is generated), "none" (not declared)
RECURSIVE Stored(_, _)
Stored(done, k) ==
    IF k = 0 THEN "none"
    ELSE LET node == VarNodes[done[k]].node
         IN  IF node.kind # "VarDecl" THEN Stored(done, k - 1)
             ELSE IF node.value.kind = "IndexAccess"
             THEN IF \E j \in 1..(k - 1) : done[j] = 1
                  THEN "enum" ELSE "stale"
             ELSE node.value.type

LastStored == Stored(op[3], Len(op[3]))

\* the step declares v from the string str (a string literal, or the case
\* of an access of a defined enum): str is in the data buffer, its address
\* is formed in x0 and stored to v's slot with the 64-bit store
StoresPointerTo(str) ==
    /\ str \in DOMAIN string_offsets'
    /\ "v" \in DOMAIN variables'
    /\ code' = emit_store_x(emit_adrp_add(Self, 0, string_offsets'[str]),
                            0, variables'["v"]).code

\* C22: a variable declared from a string literal or from an enum case
\* access is stored as a 64-bit pointer into the data buffer (for a string
\* literal, the address of that string's bytes) and every later reference
\* loads it with the 64-bit load; numeric and boolean variables are loaded
\* with the 32-bit load.  The code violates it: the declaration from a
\* string literal stores 0 and the variable is loaded with the 32-bit load.
C22_LoadWidth ==
    [][/\ op'[2] = 3 => StoresPointerTo("hi")
       /\ (op'[2] = 2 /\ "Color" \in DOMAIN enums) => StoresPointerTo("Red")
       /\ (op'[2] = 7 /\ LastStored \in {"enum", "str"}) =>
              code' = emit_load_x(Self, 0, variables["v"]).code
       /\ (op'[2] = 7 /\ LastStored \in {"int", "bool"}) =>
              code' = emit_load(Self, 0, variables["v"]).code]_vars

\* v is declared once among the nodes done
DeclaredOnce ==
    Cardinality({ k \in 1..Len(op[3]) :
                      VarNodes[op[3][k]].node.kind = "VarDecl" }) = 1

\* what holds: the enum case is stored as a pointer, and a variable that
\* was declared once, from an enum case, an integer or a boolean, is loaded
\* with the width of what it holds
LoadWidthOfSingleDeclaration ==
    [][/\ (op'[2] = 2 /\ "Color" \in DOMAIN enums) => StoresPointerTo("Red")
       /\ (op'[2] = 7 /\ DeclaredOnce /\ LastStored = "enum") =>
              code' = emit_load_x(Self, 0, variables["v"]).code
       /\ (op'[2] = 7 /\ DeclaredOnce /\ LastStored \in {"int", "bool"}) =>
              code' = emit_load(Self, 0, variables["v"]).code]_vars


\* words k, k + 1 of c are an address-formation pair as _emit_adrp_add
\* emits it: adrp reg with no page delta, then add reg, reg, #offset
IsEmittedPair(c, k) ==
    /\ k + 1 <= Len(c)
    /\ \E reg \in 0..31 :
           /\ c[k] = Or32(inst.adrp, ToWord(reg))
           /\ And32(c[k + 1], Hex(\hFFC0, \h03FF))
                  = Or32(Or32(inst.add_imm_base, Shl32(ToWord(reg), 5)),
                         ToWord(reg))

\* word k of c is a pending-branch site
IsBranchSite(k) ==
    \E i \in 1..Len(pending_branches) :
        pending_branches[i].offset = 4 * (k - 1)

\* C23: in compile, _resolve_branches changes only words at pending-branch
\* sites; the fixup pass of _write_macho changes only the first word of an
\* address-formation pair or the add that follows it, never a branch site
\* or another instruction; the fixup applied before the resolution gives
\* the same buffer as the resolution before the fixup, which is the buffer
\* compile ends with; and the file holds the words both passes have left.
C23_PassesIndependent ==
    [][(pc = "main" /\ pc' = "written") =>
          LET unresolved == compile_exit(Self)
              resolved == pad_code(resolve_branches(unresolved).code)
              raw == pad_code(unresolved.code)
          IN  /\ \A k \in 1..Len(raw) :
                     resolved[k] # raw[k] => IsBranchSite(k)
              /\ \A k \in 1..Len(resolved) :
                     code'[k] # resolved[k] =>
                         /\ \/ IsEmittedPair(resolved, k)
                            \/ k > 1 /\ IsEmittedPair(resolved, k - 1)
                         /\ ~IsBranchSite(k)
              /\ \A k \in 1..Len(resolved) :
                     IsBranchSite(k) => code'[k] = resolved[k]
              /\ resolve_branches(
                     [unresolved EXCEPT
                        !.code = fixup_adrp_add(raw, layout')]).code = code'
              /\ \A k \in 1..Len(code') :
                     (IsBranchSite(k) \/ IsEmittedPair(resolved, k)) =>
                         U32At(binary',
                               layout'.code_file_offset + 4 * (k - 1))
                             = code'[k]]_vars

\* a written program with a function and a call of it: a resolved bl and a
\* pair whose add carries the data's in-page offset are both in the final
\* buffer
C23_Witness ==
    /\ pc = "written"
    /\ "f1" \in DOMAIN functions
    /\ \E i \in 1..Len(pending_branches) :
           /\ pending_branches[i].type = "bl"
           /\ WordAt(code, pending_branches[i].offset) # Hex(\h1400, 0)
    /\ PageOffset(layout.data_vm_addr) > 0
    /\ \E k \in 1..(Len(code) - 1) :
           /\ is_adrp_inst(code[k])
           /\ And32(code[k + 1], Hex(\hFF80, 0)) = inst.add_imm_base
           /\ Bits(code[k + 1], 10, 12) > PageOffset(layout.data_vm_addr)
           /\ ~IsBranchSite(k)


(***************************************************************************)
(* SpecCall: programs whose main calls user functions, in an argument of   *)
(* another call or in the right operand of a condition, compiled, written  *)
(* and run.  op = <<method, p, done>>: the program (an index into          *)
(* CallPrograms) and the statements of its main generated so far           *)
(***************************************************************************)
\* the functions every program defines
CallFuncs ==
    << FuncDef("first", <<"a", "b">>, << ReturnStmt(VarRef("a")) >>),
       FuncDef("second", <<"a", "b">>, << ReturnStmt(VarRef("b")) >>),
       FuncDef("id", <<"p">>, << ReturnStmt(VarRef("p")) >>),
       FuncDef("seven", << >>, << ReturnStmt(IntLit(7)) >>),
       FuncDef("noisy", <<"p">>,
               << PrintStmt(VarRef("p")), ReturnStmt(VarRef("p")) >>),
       FuncDef("cond", <<"p">>,
               << IfStmt(BinaryOp(VarRef("p"), "<", IntLit(5)),
                         << ReturnStmt(IntLit(1)) >>, << >>),
                  ReturnStmt(IntLit(0)) >>) >>

\* r = call, then print r
CallProgram(call) == << VarDecl("r", call), PrintStmt(VarRef("r")) >>

\* the statements of main, program by program
CallPrograms ==
    << CallProgram(FuncCall("first", << IntLit(3), IntLit(4) >>)),
       CallProgram(FuncCall("first",
           << IntLit(1), FuncCall("seven", << >>) >>)),
       CallProgram(FuncCall("first",
           << IntLit(1), FuncCall("id", << IntLit(2) >>) >>)),
       CallProgram(FuncCall("second",
           << IntLit(1), FuncCall("id", << IntLit(2) >>) >>)),
       CallProgram(FuncCall("first",
           << IntLit(1),
              BinaryOp(IntLit(2), "+", FuncCall("id", << IntLit(3) >>)) >>)),
       IfProgram(BinaryOp(IntLit(3), "<", IntLit(4))),
       IfProgram(BinaryOp(IntLit(3), "<", FuncCall("id", << IntLit(4) >>))),
       IfProgram(BinaryOp(IntLit(5), "<", FuncCall("id", << IntLit(4) >>))),
       IfProgram(BinaryOp(IntLit(4), "==",
                          FuncCall("noisy", << IntLit(4) >>))),
       IfProgram(BinaryOp(IntLit(5), "<", FuncCall("noisy", << IntLit(4) >>))),
       IfProgram(BinaryOp(IntLit(0), "<", FuncCall("cond", << IntLit(3) >>))) >>

\* compile up to the end of main's prologue, for program p
BeginCall(p) ==
    /\ pc = "init"
    /\ LET s == compile_begin(Self, CallFuncs)
       IN  /\ Install(s)
           /\ main_offset' = s.ret
    /\ op' = <<"compile", p, << >> >>
    /\ pc' = "main"
    /\ UNCHANGED <<layout, binary, cpu>>

\* self._gen_stmt(stmt) for the next statement of main
CallStmt ==
    /\ pc = "main"
    /\ Len(op[3]) < Len(CallPrograms[op[2]])
    /\ Install(gen_stmt(Self, CallPrograms[op[2]][Len(op[3]) + 1]))
    /\ op' = <<"_gen_stmt", op[2],
               Append(op[3], CallPrograms[op[2]][Len(op[3]) + 1])>>
    /\ UNCHANGED <<pc, out_vars>>

NextCall ==
    \/ \E p \in DOMAIN CallPrograms : BeginCall(p)
    \/ CallStmt
    \/ Finish
    \/ Launch
    \/ Step

SpecCall == InitMacho /\ [][NextCall]_vars

\* the value of an integer expression of literals, sums, comparisons and
\* calls of the functions of CallFuncs
RECURSIVE EvalCall(_)
EvalCall(node) ==
    IF node.kind = "Literal" THEN IntOf(node)
    ELSE IF node.kind = "FuncCall"
    THEN CASE node.name = "first" -> EvalCall(node.args[1])
           [] node.name = "second" -> EvalCall(node.args[2])
           [] node.name \in {"id", "noisy"} -> EvalCall(node.args[1])
           [] node.name = "seven" -> 7
           [] node.name = "cond" ->
                  IF EvalCall(node.args[1]) < 5 THEN 1 ELSE 0
    ELSE LET l == EvalCall(node.left)
             r == EvalCall(node.right)
         IN  CASE node.op = "+" -> l + r
               [] node.op = "==" -> IF l = r THEN 1 ELSE 0
               [] node.op = "<" -> IF l < r THEN 1 ELSE 0

\* the expression is, or contains, a function call
RECURSIVE ContainsCall(_)
ContainsCall(node) ==
    IF node.kind = "FuncCall" THEN TRUE
    ELSE IF node.kind = "BinaryOp"
    THEN ContainsCall(node.left) \/ ContainsCall(node.right)
    ELSE FALSE

\* the machine is at the first instruction of function name
AtEntryOf(name) ==
    /\ pc = "run"
    /\ ~cpu.halted
    /\ cpu.ip = AddX(layout.code_vm_addr, functions[name].code_offset)

\* main's first statement is r = f(...), and the machine enters f
EntersOuterCall ==
    /\ pc = "run"
    /\ Len(op[3]) >= 1
    /\ op[3][1].kind = "VarDecl"
    /\ AtEntryOf(op[3][1].value.name)

\* C24: when f(a0, ..., ak) is entered and some argument aj, j >= 1, is or
\* contains a function call, argument register i holds the value of ai for
\* every i < j.  The code violates it: the inner call parks its own first
\* argument in w19, the holding register of a0.
C24_ArgumentsSurvive ==
    EntersOuterCall =>
        LET args == op[3][1].value.args
        IN  \A i \in 1..Len(args) :
                (\E j \in (i + 1)..Len(args) : ContainsCall(args[j])) =>
                    Signed32(WordOf(cpu.x[i - 1])) = EvalCall(args[i])

\* the inner calls that park nothing: those without arguments
RECURSIVE CallsPark(_)
CallsPark(node) ==
    IF node.kind = "FuncCall" THEN Len(node.args) > 0
    ELSE IF node.kind = "BinaryOp"
    THEN CallsPark(node.left) \/ CallsPark(node.right)
    ELSE FALSE

\* what holds: every argument register holds its argument's value when no
\* later argument contains a call that has arguments
ArgumentsPassedWithoutParkingCalls ==
    EntersOuterCall =>
        LET args == op[3][1].value.args
        IN  \A i \in 1..Len(args) :
                (\A j \in (i + 1)..Len(args) : ~CallsPark(args[j])) =>
                    Signed32(WordOf(cpu.x[i - 1])) = EvalCall(args[i])


\* main's first statement is a conditional on a direct comparison, and the
\* machine is at the cmp w9, w0 that _gen_if emitted for it in main
AtMainCompare ==
    /\ pc = "run"
    /\ ~cpu.halted
    /\ Len(op[3]) >= 1
    /\ op[3][1].kind = "IfStmt"
    /\ GeU64(cpu.ip, AddX(layout.code_vm_addr, main_offset))
    /\ Mapped(cpu.ip)
    /\ U32At(binary, Off(cpu.ip)) = inst.compare.cmp_w9_w0

\* C30: in _gen_if's integer path the left value is parked in w9 while the
\* right operand is generated, and for every right operand, one that calls
\* a function whose body prints or has a conditional included, the value
\* compared with the right operand is the left operand's.  The code
\* violates it: the print routine and the callee's own conditional write
\* w9, which no call saves.
C30_LeftOperandSurvives ==
    AtMainCompare =>
        /\ Signed32(WordOf(cpu.x[9])) = EvalCall(op[3][1].condition.left)
        /\ Signed32(WordOf(cpu.x[0])) = EvalCall(op[3][1].condition.right)

\* what holds: the same, for a right operand that is a literal or a call of
\* a function that neither prints nor has a conditional
LeftOperandSurvivesQuietCall ==
    (/\ AtMainCompare
     /\ op[3][1].condition.right.kind = "FuncCall" =>
            op[3][1].condition.right.name \in {"id", "seven", "first", "second"})
        => /\ Signed32(WordOf(cpu.x[9])) = EvalCall(op[3][1].condition.left)
           /\ Signed32(WordOf(cpu.x[0])) = EvalCall(op[3][1].condition.right)

\* the output of a program of CallPrograms that ran to its exit call, were
\* every call to pass its arguments and every comparison to compare its
\* two operands
CallOutput ==
    LET st == op[3][1]
    IN  IF st.kind = "VarDecl"
        THEN IF Len(op[3]) = 2 THEN Decimal(EvalCall(st.value)) \o <<10>>
             ELSE << >>
        ELSE (IF st.condition.right.kind = "FuncCall"
                 /\ st.condition.right.name = "noisy"
              THEN Decimal(EvalCall(st.condition.right)) \o <<10>>
              ELSE << >>)
             \o (IF EvalCall(st.condition) # 0
                 THEN <<116, 10>> ELSE <<101, 10>>)


(***************************************************************************)
(* SpecSlots: declarations of every kind and a loop, each of its own       *)
(* name, generated in main in any order                                    *)
(***************************************************************************)
\* how many statements are generated at most
MaxSlotNodes == 3

SlotNodes ==
    << [via |-> "_gen_stmt", node |-> VarDecl("s", IntLit(5))],
       [via |-> "_gen_stmt",
        node |-> VarDecl("d", DictLiteral(<< << StrLit("k"), IntLit(1) >> >>))],
       [via |-> "_gen_stmt", node |-> VarDecl("e", ArrayLiteral(<< >>))],
       [via |-> "_gen_stmt", node |-> VarDecl("t", TupleLiteral(<< >>))],
       [via |-> "_gen_stmt",
        node |-> VarDecl("m", ArrayLiteral(<< StrLit("a"), IntLit(5) >>))],
       [via |-> "_gen_stmt",
        node |-> VarDecl("a", ArrayLiteral(<< IntLit(1), IntLit(2) >>))],
       [via |-> "_gen_stmt",
        node |-> LoopStmt("i", IntLit(0), IntLit(2), << >>)],
       [via |-> "_gen_stmt",
        node |-> VarDecl("u", TupleLiteral(<< IntLit(1), StrLit("s") >>))],
       [via |-> "_gen_stmt", node |-> VarDecl("y", IntLit(6))] >>

GenSlotNode(i) == GenNodeOf(SlotNodes, MaxSlotNodes, i)

NextSlots == \E i \in DOMAIN SlotNodes : GenSlotNode(i)

SpecSlots == InitMain /\ [][NextSlots]_vars

\* the 8-byte slots, by their frame offsets, that name n owns according to
\* the tables vs, as, ts, ds (variables, arrays, tuples, dicts): count
\* slots from its offset for an array, one per type for a tuple, one per
\* entry that is no sub-array for a dictionary, its one slot for a scalar
OwnedIn(vs, as, ts, ds, n) ==
    IF n \in DOMAIN as
    THEN { as[n].offset + 8 * k : k \in 0..(as[n].count - 1) }
    ELSE IF n \in DOMAIN ts
    THEN { ts[n].offset + 8 * k : k \in 0..(Len(ts[n].types) - 1) }
    ELSE IF n \in DOMAIN ds
    THEN { ds[n][k].offset :
               k \in { j \in 1..Len(ds[n]) : ds[n][j].sub_array = None } }
    ELSE { vs[n] }

Owned(n) == OwnedIn(variables, arrays, tuples, dicts, n)

OwnedNext(n) == OwnedIn(variables', arrays', tuples', dicts', n)

\* C25: at every point of generating one scope the slots owned by distinct
\* names of the variable table are pairwise disjoint, the hidden end slot
\* of a loop is owned by no name, and a statement gives a name only slots
\* at or above the stack_offset it starts from (so that no later
\* declaration takes a slot in use).  The code violates it: a string array
\* is recorded with the count of all its elements but gets slots only for
\* the string literals among them.
C25_SlotsDisjoint ==
    [][/\ \A n1, n2 \in DOMAIN variables' :
              n1 # n2 => OwnedNext(n1) \cap OwnedNext(n2) = {}
       /\ \A n \in DOMAIN variables' :
              \A o \in OwnedNext(n) :
                  (n \notin DOMAIN variables \/ o \notin Owned(n)) =>
                      stack_offset <= o /\ o < stack_offset'
       /\ SlotNodes[op'[2]].node.kind = "LoopStmt" =>
              \A n \in DOMAIN variables' :
                  (stack_offset' - 8) \notin OwnedNext(n)]_vars

\* what holds: the same, as long as the array of a string and an integer
\* is not declared
SlotsDisjointWithoutMixedArray ==
    [][op'[2] # 5 /\ "m" \notin DOMAIN variables =>
          /\ \A n1, n2 \in DOMAIN variables' :
                 n1 # n2 => OwnedNext(n1) \cap OwnedNext(n2) = {}
          /\ \A n \in DOMAIN variables' :
                 \A o \in OwnedNext(n) :
                     (n \notin DOMAIN variables \/ o \notin Owned(n)) =>
                         stack_offset <= o /\ o < stack_offset'
          /\ SlotNodes[op'[2]].node.kind = "LoopStmt" =>
                 \A n \in DOMAIN variables' :
                     (stack_offset' - 8) \notin OwnedNext(n)]_vars

\* the entries of the variable table are pairwise different: violated after
\* a dictionary, an empty array or an empty tuple, whose entry is the slot
\* the next declaration takes
TableEntriesDistinct ==
    \A n1, n2 \in DOMAIN variables : n1 # n2 => variables[n1] # variables[n2]


(***************************************************************************)
(* SpecScope: a function f whose body declares x as a value of some kind,  *)
(* then main, which declares x as an integer, refers to it and prints it   *)
(***************************************************************************)
\* how many statements main has at most
MaxScopeNodes == 4

\* the bodies of f
ScopeBodies ==
    << << >>,
       << VarDecl("x", IntLit(7)) >>,
       << VarDecl("x", Literal("float", "2.5")) >>,
       << VarDecl("x", ArrayLiteral(<< IntLit(1), IntLit(2) >>)) >>,
       << VarDecl("x", TupleLiteral(<< IntLit(1), StrLit("s") >>)) >>,
       << VarDecl("x", DictLiteral(<< << StrLit("k"), IntLit(1) >> >>)) >>,
       << EnumDef("Color", <<"Red">>),
          VarDecl("x", IndexAccess(VarRef("Color"), StrLit("Red"))) >> >>

\* the statements of main
ScopeNodes ==
    << [via |-> "_gen_stmt", node |-> VarDecl("x", IntLit(5))],
       [via |-> "_gen_stmt", node |-> PrintStmt(VarRef("x"))],
       [via |-> "_gen_stmt", node |-> VarDecl("y", VarRef("x"))] >>

\* compile up to the end of main's prologue, f having body k
BeginScope(k) ==
    /\ pc = "init"
    /\ LET s == compile_begin(Self, << FuncDef("f", << >>, ScopeBodies[k]) >>)
       IN  /\ Install(s)
           /\ main_offset' = s.ret
    /\ op' = <<"compile", k, << >> >>
    /\ pc' = "main"
    /\ UNCHANGED <<layout, binary, cpu>>

\* main declares x before it refers to it
GenScopeNode(i) ==
    /\ op[3] = << >> => i = 1
    /\ GenNodeOf(ScopeNodes, MaxScopeNodes, i)

NextScope ==
    \/ \E k \in DOMAIN ScopeBodies : BeginScope(k)
    \/ \E i \in DOMAIN ScopeNodes : GenScopeNode(i)

SpecScope == InitMacho /\ [][NextScope]_vars

\* the generator with the descriptor and type-tag tables of a scope that
\* has declared integers only
OwnTables(s) ==
    [s EXCEPT !.arrays = EmptyDict, !.tuples = EmptyDict,
              !.dicts = EmptyDict, !.float_vars = {},
              !.enum_var_types = {}]

\* C26: while main is generated, the entries of arrays, tuples, dicts,
\* float_vars and enum_var_types that are consulted are those of names
\* declared in main: a statement of main, which declares integers only,
\* emits the code and data it would emit with those tables empty, whatever
\* the function generated before declared under the same name.  The code
\* violates it: _gen_func restores variables and stack_offset only.
C26_TablesScoped ==
    [][(pc = "main" /\ pc' = "main") =>
          LET own == gen_stmt(OwnTables(Self), ScopeNodes[op'[2]].node)
          IN  code' = own.code /\ data' = own.data]_vars


\* C27: within one scope, after any sequence of declarations of v, v is in
\* float_vars exactly when its most recent declaration stored a
\* floating-point value and in enum_var_types exactly when it stored the
\* pointer of an enum case, and a reference to v whose most recent
\* declaration stored an integer loads it with the 32-bit integer load.
\* The code violates it: _gen_var_decl adds the name to the tables and
\* never removes it.
C27_TagsMatchLastStore ==
    /\ "v" \in float_vars <=> LastStored = "float"
    /\ "v" \in enum_var_types <=> LastStored = "enum"
    /\ (op[2] = 7 /\ LastStored = "int") =>
           code[Len(code)] = frame_word(Hex(\hB840, 0), 0, variables["v"])

\* what holds: the tag of the most recent declaration is set
TagsCoverLastStore ==
    /\ LastStored = "float" => "v" \in float_vars
    /\ LastStored = "enum" => "v" \in enum_var_types
    /\ "v" \in float_vars =>
           \E k \in 1..Len(op[3]) : op[3][k] = 5
    /\ "v" \in enum_var_types =>
           \E k \in 1..Len(op[3]) : op[3][k] = 2


\* the page delta an ADRP word carries: immhi:immlo
PageDeltaOf(w) == Bits(w, 5, 19) * 4 + Bits(w, 29, 2)

\* C28: for every program, each adrp/add pair emitted during generation
\* starts at a code offset strictly less than the padded code length minus
\* 8, and in the buffer _write_macho leaves its adrp carries the page delta
\* from its own page to the data's page and its add the data's in-page
\* offset added to the offset it was emitted with.
C28_EveryPairFixed ==
    [][(pc = "main" /\ pc' = "written") =>
          LET emitted == pad_code(compile_end(Self).code)
          IN  \A k \in 1..(Len(emitted) - 1) :
                  IsEmittedPair(emitted, k) =>
                      /\ 4 * (k - 1) < 4 * Len(emitted) - 8
                      /\ And32(code'[k], Hex(\h9F00, \h001F))
                             = And32(emitted[k], Hex(\h9F00, \h001F))
                      /\ PageDeltaOf(code'[k]) * 4096
                             = Diff64(PageOf(layout'.data_vm_addr),
                                      PageOf(AddX(layout'.code_vm_addr,
                                                  4 * (k - 1))))
                      /\ And32(code'[k + 1], Hex(\hFFC0, \h03FF))
                             = And32(emitted[k + 1], Hex(\hFFC0, \h03FF))
                      /\ Bits(code'[k + 1], 10, 12)
                             = (PageOffset(layout'.data_vm_addr)
                                  + Bits(emitted[k + 1], 10, 12)) % 4096]_vars

\* a written program whose main ends with a statement that forms an
\* address, the data lying off the start of its page: the last pair of the
\* buffer is in main and its add carries more than the in-page offset
C28_Witness ==
    /\ pc = "written"
    /\ Len(op[3]) > 0
    /\ MachoStmts[op[3][Len(op[3])]].kind = "PrintStmt"
    /\ PageOffset(layout.data_vm_addr) > 0
    /\ \E k \in (main_offset \div 4 + 1)..(Len(code) - 2) :
           /\ is_adrp_inst(code[k])
           /\ And32(code[k + 1], Hex(\hFF80, 0)) = inst.add_imm_base
           /\ Bits(code[k + 1], 10, 12) >= PageOffset(layout.data_vm_addr)
           /\ \A j \in (k + 1)..(Len(code) - 1) : ~is_adrp_inst(code[j])
           /\ 4 * (k - 1) < 4 * Len(code) - 8


(***************************************************************************)
(* SpecHandles: the data buffer of a program with an enum of two cases and *)
(* long string literals, under _add_string calls for the case names, at    *)
(* any time, and for the literals, in order                                *)
(***************************************************************************)
\* how many long literals the program has at most
MaxFillers == 8

CaseNames == {"Red", "Blue"}

\* a string of n characters
RECURSIVE Rep(_)
Rep(n) ==
    IF n = 0 THEN ""
    ELSE IF n = 1 THEN "a"
    ELSE Rep(n \div 2) \o Rep(n - n \div 2)

\* the j-th literal: a digit and a run of letters, 503 characters for the
\* first and 511 for the others
Filler(j) == Str(j) \o Rep(IF j = 1 THEN 502 ELSE 510)

\* the literals added so far
FillersAdded ==
    Cardinality({ j \in 1..MaxFillers : Filler(j) \in DOMAIN string_offsets })

AddCase(name) ==
    /\ Install(add_string(Self, name))
    /\ op' = <<"_add_string", name>>
    /\ UNCHANGED <<pc, out_vars>>

AddFiller ==
    /\ FillersAdded < MaxFillers
    /\ Install(add_string(Self, Filler(FillersAdded + 1)))
    /\ op' = <<"_add_string", "text">>
    /\ UNCHANGED <<pc, out_vars>>

NextHandles ==
    \/ \E name \in CaseNames : AddCase(name)
    \/ AddFiller

SpecHandles == InitPool /\ [][NextHandles]_vars

\* the words that form the handle of an enum case named str: the pair
\* _gen_expr emits from the offset _add_string returns for the name; the
\* fixup adds the same page and the same in-page offset to every pair, so
\* two handles are equal exactly when these words are
HandleOf(str) ==
    LET s == emit_adrp_add(NewCompiler, 0, string_offsets[str])
    IN  s.code

\* C29: after any sequence of _add_string and _add_double calls, two
\* different strings never map to the same data offset, every recorded and
\* every returned offset is a multiple of 8, and the handles formed for two
\* case names are equal exactly when the names are equal.  The code
\* violates the last part: _emit_adrp_add keeps the low 12 bits of the
\* offset.
C29_OffsetsInjective ==
    /\ \A s1, s2 \in DOMAIN string_offsets :
           string_offsets[s1] = string_offsets[s2] <=> s1 = s2
    /\ \A s1, s2 \in DOMAIN string_offsets \cap CaseNames :
           HandleOf(s1) = HandleOf(s2) <=> s1 = s2
    /\ \A str \in DOMAIN string_offsets :
           /\ string_offsets[str] % 8 = 0
           /\ string_offsets[str] < Len(data)
    /\ op[1] \in {"_add_string", "_add_double"} => ret % 8 = 0

\* what holds: the offsets are distinct multiples of 8 inside the buffer,
\* and the handles of two names whose offsets are less than 4096 apart
\* differ
OffsetsDistinctAligned ==
    /\ \A s1, s2 \in DOMAIN string_offsets :
           /\ string_offsets[s1] = string_offsets[s2] <=> s1 = s2
           /\ (s1 # s2 /\ string_offsets[s1] - string_offsets[s2] \in 1..4095)
                  => HandleOf(s1) # HandleOf(s2)
    /\ \A str \in DOMAIN string_offsets :
           /\ string_offsets[str] % 8 = 0
           /\ string_offsets[str] < Len(data)
    /\ op[1] \in {"_add_string", "_add_double"} => ret % 8 = 0
=============================================================================
